---- MODULE Spec2Model ----
(***************************************************************************)
(* Model of the extended-map containers: ArrayMap (parallel arrays plus a  *)
(* key->position index, swap-removal), HashMap and its capacity-bounded    *)
(* subclass BoundedHashMap, and the Map subclasses EnMap (two revisions)   *)
(* and ExtMap.                                                             *)
(*                                                                         *)
(* JavaScript values are modelled as integers: Undefined and Null are the  *)
(* two nullish values, 1..MaxVal are the usable values.  A callback is     *)
(* modelled by the value it returns, drawn from Vals; the arguments it is  *)
(* called with are recorded in last.calls.                                 *)
(***************************************************************************)
EXTENDS Integers, Sequences, FiniteSets, TLC

VARIABLES a_index, a_keys, a_values,   \* ArrayMap: _index, _keys, _values
          hobj,                        \* a HashMap / BoundedHashMap object
          emap, cls,                   \* a Map subclass instance and its class
          last,                        \* the last call: arguments, result, pre-state
          heap, refs,                  \* objects by address, and the references held to them
          iter                         \* an iterator of the ArrayMap, and what was observed of the map

vars == <<a_index, a_keys, a_values, hobj, emap, cls, last, heap, refs, iter>>

\* ------------------------------------------------------------------ bounds
MaxKey == 2
MaxVal == 1
MaxEntries == 1
MaxCap == 1

\* ------------------------------------------------------------------ values
Undefined == 0 - 2
Null == 0 - 1
This == 0 - 3

Keys == 1..MaxKey
Usable == 1..MaxVal
Vals == {Undefined, Null} \cup Usable

__isNullish(v) == v = Undefined \/ v = Null

\* a ?? b
Coalesce(a, b) == IF a = Undefined \/ a = Null THEN b ELSE a

\* --------------------------------------------------------- JavaScript arrays
\* arr[i] with a 0-based i: a slot past the end reads undefined
ArrGet(arr, i) == IF i >= 0 /\ i < Len(arr) THEN arr[i + 1] ELSE Undefined

\* arr[i] = v: writing past the end extends the array
ArrSet(arr, i, v) ==
    IF i < 0 THEN arr
    ELSE [j \in 1..(IF i + 1 > Len(arr) THEN i + 1 ELSE Len(arr)) |->
            IF j = i + 1 THEN v
            ELSE IF j <= Len(arr) THEN arr[j] ELSE Undefined]

ArrPush(arr, v) == Append(arr, v)

ArrPop(arr) == IF Len(arr) = 0 THEN arr ELSE SubSeq(arr, 1, Len(arr) - 1)

\* ------------------------------------------------- the built-in Map<K, V>
\* A native Map is the sequence of its <<key, value>> entries in insertion
\* order: set of an existing key overwrites in place, set of a new key
\* appends, delete removes the entry.
MapPos(m, k) == IF \E i \in 1..Len(m) : m[i][1] = k
                THEN CHOOSE i \in 1..Len(m) : m[i][1] = k
                ELSE 0

MapHas(m, k) == MapPos(m, k) # 0

MapGet(m, k) == IF MapHas(m, k) THEN m[MapPos(m, k)][2] ELSE Undefined

MapSet(m, k, v) == IF MapHas(m, k)
                   THEN [m EXCEPT ![MapPos(m, k)] = <<k, v>>]
                   ELSE Append(m, <<k, v>>)

MapDelete(m, k) ==
    IF MapHas(m, k)
    THEN LET p == MapPos(m, k)
         IN  SubSeq(m, 1, p - 1) \o SubSeq(m, p + 1, Len(m))
    ELSE m

MapSize(m) == Len(m)

MapKeys(m) == {m[i][1] : i \in 1..Len(m)}

RECURSIVE MapFrom(_, _)
\* new Map(entries)
MapFrom(m, es) == IF es = <<>> THEN m
                  ELSE MapFrom(MapSet(m, es[1][1], es[1][2]), Tail(es))

\* the Map<K, number> used as ArrayMap._index: a function key -> position
IdxHas(idx, k) == k \in DOMAIN idx

IdxGet(idx, k) == IF k \in DOMAIN idx THEN idx[k] ELSE Undefined

IdxSet(idx, k, p) == [x \in DOMAIN idx \cup {k} |-> IF x = k THEN p ELSE idx[x]]

IdxDelete(idx, k) == [x \in DOMAIN idx \ {k} |-> idx[x]]

IdxSize(idx) == Cardinality(DOMAIN idx)

EmptyIdx == [x \in {} |-> 0]

\* ------------------------------------------------------------ call results
\* what a call leaves behind: the object, the returned value (ret, when kind
\* is "value") or boolean (ok, when kind is "boolean"), whether it threw, how many warnings it printed, and the
\* argument tuples of the callback invocations it made
Res(o, r) == [obj |-> o, kind |-> "value", ret |-> r, ok |-> FALSE, threw |-> FALSE,
              warned |-> 0, calls |-> <<>>, out |-> <<>>]

\* a call that returns the boolean b
ResOk(o, b) == [Res(o, Undefined) EXCEPT !.kind = "boolean", !.ok = b]

\* input sequences of (key, value) pairs
EntrySeqs == UNION {[1..n -> Keys \X Vals] : n \in 0..MaxEntries}

\* ================================================================ ArrayMap
ArrayMap_new == [index |-> EmptyIdx, keys |-> <<>>, values |-> <<>>]

ArrayMap_get(a, key) ==
    LET index == IdxGet(a.index, key)
    IN  IF index = Undefined THEN Undefined ELSE ArrGet(a.values, index)

ArrayMap_has(a, key) == IdxHas(a.index, key)

ArrayMap_size(a) == IdxSize(a.index)

ArrayMap_clear(a) == Res([index |-> EmptyIdx, keys |-> <<>>, values |-> <<>>], Undefined)

\* mutant: the swap-removal without `this._index.set(tailKey, index)`
ArrayMap_delete_staleIndex(a, key, value) ==
    LET index == IdxGet(a.index, key)
    IN  IF index = Undefined THEN ResOk(a, FALSE)
        ELSE IF value # Undefined /\ ArrGet(a.values, index) # value THEN ResOk(a, FALSE)
        ELSE LET tailIndex == Len(a.values) - 1
                 moved == index # tailIndex
                 keys2 == IF moved THEN ArrSet(a.keys, index, ArrGet(a.keys, tailIndex))
                          ELSE a.keys
                 values2 == IF moved
                            THEN ArrSet(a.values, index, ArrGet(a.values, tailIndex))
                            ELSE a.values
             IN  ResOk([index |-> IdxDelete(a.index, key), keys |-> ArrPop(keys2),
                        values |-> ArrPop(values2)], TRUE)

\* mutant: the swap-removal without `this._values[index] = tailValue`
ArrayMap_delete_keyOnly(a, key, value) ==
    LET index == IdxGet(a.index, key)
    IN  IF index = Undefined THEN ResOk(a, FALSE)
        ELSE IF value # Undefined /\ ArrGet(a.values, index) # value THEN ResOk(a, FALSE)
        ELSE LET tailIndex == Len(a.values) - 1
                 idx1 == IdxDelete(a.index, key)
                 tailKey == ArrGet(a.keys, tailIndex)
                 moved == index # tailIndex
                 idx2 == IF moved THEN IdxSet(idx1, tailKey, index) ELSE idx1
                 keys2 == IF moved THEN ArrSet(a.keys, index, tailKey) ELSE a.keys
             IN  ResOk([index |-> idx2, keys |-> ArrPop(keys2), values |-> ArrPop(a.values)],
                       TRUE)

\* delete(key) is delete(key, Undefined): the code cannot tell them apart
ArrayMap_delete(a, key, value) ==
    LET index == IdxGet(a.index, key)
    IN  IF index = Undefined THEN ResOk(a, FALSE)
        ELSE IF value # Undefined /\ ArrGet(a.values, index) # value THEN ResOk(a, FALSE)
        ELSE LET tailIndex == Len(a.values) - 1
                 idx1 == IdxDelete(a.index, key)
                 tailKey == ArrGet(a.keys, tailIndex)
                 tailValue == ArrGet(a.values, tailIndex)
                 moved == index # tailIndex
                 idx2 == IF moved THEN IdxSet(idx1, tailKey, index) ELSE idx1
                 keys2 == IF moved THEN ArrSet(a.keys, index, tailKey) ELSE a.keys
                 values2 == IF moved THEN ArrSet(a.values, index, tailValue) ELSE a.values
             IN  ResOk([index |-> idx2, keys |-> ArrPop(keys2), values |-> ArrPop(values2)],
                       TRUE)

\* mutant: set of an existing key removes the entry and appends it again
ArrayMap_set_reinsert(a, key, value) ==
    LET b == ArrayMap_delete(a, key, Undefined).obj
    IN  Res([index |-> IdxSet(b.index, key, Len(b.values)),
             keys |-> ArrPush(b.keys, key),
             values |-> ArrPush(b.values, value)], This)

ArrayMap_set(a, key, value) ==
    LET index == IdxGet(a.index, key)
    IN  IF index # Undefined
        THEN Res([a EXCEPT !.values = ArrSet(a.values, index, value)], This)
        ELSE Res([index |-> IdxSet(a.index, key, Len(a.values)),
                  keys |-> ArrPush(a.keys, key),
                  values |-> ArrPush(a.values, value)], This)

RECURSIVE ArrayMap_toArrayFrom(_, _)
ArrayMap_toArrayFrom(a, i) ==
    IF i < Len(a.values)
    THEN <<<<ArrGet(a.keys, i), ArrGet(a.values, i)>>>> \o ArrayMap_toArrayFrom(a, i + 1)
    ELSE <<>>

ArrayMap_toArray(a) == ArrayMap_toArrayFrom(a, 0)

RECURSIVE ArrayMap_sweepCollect(_, _, _, _)
\* first loop of sweep: fn(value, key) is "key \in pred"
ArrayMap_sweepCollect(a, pred, i, result) ==
    IF i < Len(a.values)
    THEN LET key == ArrGet(a.keys, i)
             value == ArrGet(a.values, i)
         IN  ArrayMap_sweepCollect(a, pred, i + 1,
                 IF key \in pred THEN ArrayMap_set(result, key, value).obj ELSE result)
    ELSE result

RECURSIVE ArrayMap_sweepDelete(_, _, _)
\* second loop of sweep: delete every key of result.keys()
ArrayMap_sweepDelete(a, ks, i) ==
    IF i < Len(ks)
    THEN ArrayMap_sweepDelete(ArrayMap_delete(a, ArrGet(ks, i), Undefined).obj, ks, i + 1)
    ELSE a

RECURSIVE ArrayMap_sweepCalls(_, _, _)
\* the calls fn(value, key, this) of the first loop, each with its result
ArrayMap_sweepCalls(a, pred, i) ==
    IF i < Len(a.values)
    THEN <<<<ArrGet(a.values, i), ArrGet(a.keys, i), ArrGet(a.keys, i) \in pred>>>>
            \o ArrayMap_sweepCalls(a, pred, i + 1)
    ELSE <<>>

ArrayMap_sweep(a, pred) ==
    LET result == ArrayMap_sweepCollect(a, pred, 0, ArrayMap_new)
    IN  [Res(ArrayMap_sweepDelete(a, result.keys, 0), Undefined)
            EXCEPT !.out = ArrayMap_toArray(result),
                   !.calls = ArrayMap_sweepCalls(a, pred, 0)]

ArrayMap_compute(a, key, r) ==
    LET index == IdxGet(a.index, key)
        oldValue == IF index # Undefined THEN ArrGet(a.values, index) ELSE Undefined
        newValue == r
        after == IF newValue = Undefined
                 THEN ArrayMap_delete(a, key, Undefined).obj
                 ELSE ArrayMap_set(a, key, newValue).obj
    IN  [Res(after, newValue) EXCEPT !.calls = << <<key, oldValue>> >>]

ArrayMap_computeIfAbsent(a, key, r) ==
    LET index == IdxGet(a.index, key)
    IN  IF index # Undefined THEN Res(a, ArrGet(a.values, index))
        ELSE [Res(ArrayMap_set(a, key, r).obj, r) EXCEPT !.calls = << <<key>> >>]

ArrayMap_computeIfPresent(a, key, r) ==
    LET index == IdxGet(a.index, key)
    IN  IF index # Undefined
        THEN LET newValue == r
                 after == IF newValue = Undefined
                          THEN ArrayMap_delete(a, key, Undefined).obj
                          ELSE [a EXCEPT !.values = ArrSet(a.values, index, newValue)]
             IN  [Res(after, newValue)
                    EXCEPT !.calls = << <<key, ArrGet(a.values, index)>> >>]
        ELSE Res(a, Undefined)

ArrayMap_getOrDefault(a, key, defaultValue) == Coalesce(ArrayMap_get(a, key), defaultValue)

\* `newValue == undefined` is the loose comparison: null matches too
ArrayMap_merge(a, key, value, r) ==
    LET index == IdxGet(a.index, key)
        newValue == IF index # Undefined THEN r ELSE value
        after == IF newValue = Undefined \/ newValue = Null
                 THEN ArrayMap_delete(a, key, Undefined).obj
                 ELSE ArrayMap_set(a, key, newValue).obj
    IN  [Res(after, newValue)
            EXCEPT !.calls = IF index # Undefined
                             THEN << <<ArrGet(a.values, index), value>> >>
                             ELSE <<>>]

\* mutant: put returns the value it has just stored
ArrayMap_put_returnsStored(a, key, value) ==
    LET index == IdxGet(a.index, key)
    IN  IF index # Undefined
        THEN Res([a EXCEPT !.values = ArrSet(a.values, index, value)], value)
        ELSE Res([index |-> IdxSet(a.index, key, Len(a.values)),
                  keys |-> ArrPush(a.keys, key),
                  values |-> ArrPush(a.values, value)], value)

ArrayMap_put(a, key, value) ==
    LET index == IdxGet(a.index, key)
    IN  IF index # Undefined
        THEN Res([a EXCEPT !.values = ArrSet(a.values, index, value)],
                 ArrGet(a.values, index))
        ELSE Res([index |-> IdxSet(a.index, key, Len(a.values)),
                  keys |-> ArrPush(a.keys, key),
                  values |-> ArrPush(a.values, value)], Undefined)

\* replace(key, newValue) is replace(key, newValue, Undefined); the
\* two-argument form returns a value (ret), the three-argument form a boolean (ok)
ArrayMap_replace(a, key, value1, value2) ==
    LET index == IdxGet(a.index, key)
    IN  IF value2 = Undefined
        THEN IF index = Undefined THEN Res(a, Undefined)
             ELSE Res([a EXCEPT !.values = ArrSet(a.values, index, value1)],
                      ArrGet(a.values, index))
        ELSE IF index # Undefined /\ ArrGet(a.values, index) = value1
             THEN ResOk([a EXCEPT !.values = ArrSet(a.values, index, value2)], TRUE)
             ELSE ResOk(a, FALSE)

RECURSIVE ArrayMap_setAllFrom(_, _, _)
\* override is "true", "false" or "undefined" (omitted: falsy, no default)
ArrayMap_setAllFrom(a, es, override) ==
    IF es = <<>> THEN a
    ELSE LET key == es[1][1]
             value == es[1][2]
         IN  ArrayMap_setAllFrom(
                 IF override = "true" \/ ~ArrayMap_has(a, key)
                 THEN ArrayMap_set(a, key, value).obj ELSE a,
                 Tail(es), override)

ArrayMap_setAll(a, es, override) == Res(ArrayMap_setAllFrom(a, es, override), Undefined)

ArrayMap_setIfAbsent(a, key, value) ==
    LET index == IdxGet(a.index, key)
    IN  IF index = Undefined THEN Res(ArrayMap_set(a, key, value).obj, value)
        ELSE Res(a, ArrGet(a.values, index))

\* new ArrayMap(entries)
ArrayMap_constructor(es) == ArrayMap_setAll(ArrayMap_new, es, "undefined").obj

Overrides == {"true", "false", "undefined"}

\* ================================================= HashMap, BoundedHashMap
\* An object is [cls, map, capacity, strict]; capacity and strict are the
\* BoundedHashMap fields.  A call of this.set(...) inside a HashMap method
\* dispatches on the class (this_set); this._map.set(...) does not.
HashMap_new == [cls |-> "HashMap", map |-> <<>>, capacity |-> 0, strict |-> FALSE]

HashMap_get(h, key) == MapGet(h.map, key)

HashMap_has(h, key) == MapHas(h.map, key)

HashMap_size(h) == MapSize(h.map)

HashMap_set(h, key, value) == Res([h EXCEPT !.map = MapSet(h.map, key, value)], This)

\* mutant: `this.size > this._capacity`
BoundedHashMap_set_offByOne(h, key, value) ==
    LET exists == HashMap_has(h, key)
    IN  IF ~exists /\ HashMap_size(h) > h.capacity
        THEN IF h.strict
             THEN [Res(h, Undefined) EXCEPT !.threw = TRUE]
             ELSE [Res(h, HashMap_get(h, key)) EXCEPT !.warned = 1]
        ELSE HashMap_set(h, key, value)

\* mutant: the lenient branch warns but does not return
BoundedHashMap_set_noReturn(h, key, value) ==
    LET exists == HashMap_has(h, key)
    IN  IF ~exists /\ HashMap_size(h) >= h.capacity
        THEN IF h.strict
             THEN [Res(h, Undefined) EXCEPT !.threw = TRUE]
             ELSE [HashMap_set(h, key, value) EXCEPT !.warned = 1]
        ELSE HashMap_set(h, key, value)

\* mutant: the capacity test without `!exists`
BoundedHashMap_set_noExists(h, key, value) ==
    IF HashMap_size(h) >= h.capacity
    THEN IF h.strict
         THEN [Res(h, Undefined) EXCEPT !.threw = TRUE]
         ELSE [Res(h, HashMap_get(h, key)) EXCEPT !.warned = 1]
    ELSE HashMap_set(h, key, value)

\* a >= b on numbers; a comparison with undefined is false
NumGe(a, b) == b # Undefined /\ a >= b

BoundedHashMap_set(h, key, value) ==
    LET exists == HashMap_has(h, key)
    IN  IF ~exists /\ NumGe(HashMap_size(h), h.capacity)
        THEN IF h.strict
             THEN [Res(h, Undefined) EXCEPT !.threw = TRUE]
             ELSE [Res(h, HashMap_get(h, key)) EXCEPT !.warned = 1]
        ELSE HashMap_set(h, key, value)

this_set(h, key, value) ==
    IF h.cls = "BoundedHashMap" THEN BoundedHashMap_set(h, key, value)
    ELSE HashMap_set(h, key, value)

\* `this.set(...); return ret`: a throw of set propagates, else ret is returned
SetThenReturn(sr, ret, calls) ==
    IF sr.threw THEN [sr EXCEPT !.calls = calls]
    ELSE [sr EXCEPT !.ret = ret, !.calls = calls]

HashMap_clear(h) == Res([h EXCEPT !.map = <<>>], Undefined)

\* delete(key) is delete(key, Undefined)
HashMap_delete(h, key, value) ==
    IF value = Undefined
    THEN ResOk([h EXCEPT !.map = MapDelete(h.map, key)], MapHas(h.map, key))
    ELSE LET existingValue == HashMap_get(h, key)
         IN  IF existingValue = value
             THEN ResOk([h EXCEPT !.map = MapDelete(h.map, key)], TRUE)
             ELSE ResOk(h, FALSE)

RECURSIVE HashMap_sweepCollect(_, _, _, _)
HashMap_sweepCollect(m, pred, i, result) ==
    IF i <= Len(m)
    THEN HashMap_sweepCollect(m, pred, i + 1,
             IF m[i][1] \in pred THEN MapSet(result, m[i][1], m[i][2]) ELSE result)
    ELSE result

RECURSIVE HashMap_sweepDelete(_, _, _)
HashMap_sweepDelete(m, result, i) ==
    IF i <= Len(result)
    THEN HashMap_sweepDelete(MapDelete(m, result[i][1]), result, i + 1)
    ELSE m

HashMap_sweep(h, pred) ==
    LET result == HashMap_sweepCollect(h.map, pred, 1, <<>>)
    IN  [Res([h EXCEPT !.map = HashMap_sweepDelete(h.map, result, 1)], Undefined)
            EXCEPT !.out = result,
                   !.calls = [i \in 1..Len(h.map) |->
                                <<h.map[i][2], h.map[i][1], h.map[i][1] \in pred>>]]

HashMap_compute(h, key, r) ==
    LET newValue == r
        calls == << <<key, HashMap_get(h, key)>> >>
    IN  IF newValue = Undefined
        THEN [Res([h EXCEPT !.map = MapDelete(h.map, key)], newValue)
                EXCEPT !.calls = calls]
        ELSE SetThenReturn(this_set(h, key, newValue), newValue, calls)

HashMap_computeIfAbsent(h, key, r) ==
    LET existingValue == HashMap_get(h, key)
    IN  IF existingValue = Undefined
        THEN SetThenReturn(this_set(h, key, r), r, << <<key>> >>)
        ELSE Res(h, existingValue)

HashMap_computeIfPresent(h, key, r) ==
    LET existingValue == HashMap_get(h, key)
        calls == << <<key, existingValue>> >>
    IN  IF existingValue # Undefined
        THEN IF r = Undefined
             THEN [Res([h EXCEPT !.map = MapDelete(h.map, key)], r)
                     EXCEPT !.calls = calls]
             ELSE SetThenReturn(this_set(h, key, r), r, calls)
        ELSE Res(h, Undefined)

HashMap_getOrDefault(h, key, defaultValue) == Coalesce(MapGet(h.map, key), defaultValue)

\* mutant: merge stores the given value and never the function's result
HashMap_merge_keepsValue(h, key, value, r) ==
    LET existingValue == HashMap_get(h, key)
        calls == IF existingValue # Undefined
                 THEN << <<existingValue, value>> >> ELSE <<>>
    IN  SetThenReturn(this_set(h, key, value), value, calls)

HashMap_merge(h, key, value, r) ==
    LET existingValue == HashMap_get(h, key)
        newValue == IF existingValue # Undefined THEN r ELSE value
        calls == IF existingValue # Undefined
                 THEN << <<existingValue, value>> >> ELSE <<>>
    IN  IF newValue = Undefined
        THEN [Res([h EXCEPT !.map = MapDelete(h.map, key)], newValue)
                EXCEPT !.calls = calls]
        ELSE SetThenReturn(this_set(h, key, newValue), newValue, calls)

HashMap_put(h, key, value) ==
    LET oldValue == MapGet(h.map, key)
    IN  Res([h EXCEPT !.map = MapSet(h.map, key, value)], oldValue)

\* replace(key, newValue) is replace(key, newValue, Undefined)
HashMap_replace(h, key, value1, value2) ==
    LET existingValue == HashMap_get(h, key)
    IN  IF value2 = Undefined
        THEN IF existingValue = Undefined THEN Res(h, Undefined)
             ELSE SetThenReturn(this_set(h, key, value1), existingValue, <<>>)
        ELSE IF existingValue # Undefined /\ existingValue = value1
             THEN LET sr == this_set(h, key, value2)
                  IN  IF sr.threw THEN sr ELSE ResOk(sr.obj, TRUE)
             ELSE ResOk(h, FALSE)

RECURSIVE HashMap_setAllFrom(_, _, _)
\* the loop of setAll over the remaining entries; acc is the result so far
HashMap_setAllFrom(acc, es, override) ==
    IF es = <<>> \/ acc.threw THEN acc
    ELSE LET key == es[1][1]
             value == es[1][2]
         IN  IF override \/ ~MapHas(acc.obj.map, key)
             THEN LET sr == this_set(acc.obj, key, value)
                  IN  HashMap_setAllFrom(
                          [acc EXCEPT !.obj = sr.obj, !.threw = sr.threw,
                                      !.warned = acc.warned + sr.warned],
                          Tail(es), override)
             ELSE HashMap_setAllFrom(acc, Tail(es), override)

\* override is "true", "false" or "undefined" (omitted: the default is true)
HashMap_setAll(h, es, override) ==
    HashMap_setAllFrom(Res(h, Undefined), es, override # "false")

\* mutant: setIfAbsent stores with `this._map.set`, past the capacity guard
HashMap_setIfAbsent_bypass(h, key, value) ==
    LET existingValue == HashMap_get(h, key)
    IN  IF existingValue = Undefined
        THEN SetThenReturn(HashMap_set(h, key, value), value, <<>>)
        ELSE Res(h, existingValue)

HashMap_setIfAbsent(h, key, value) ==
    LET existingValue == HashMap_get(h, key)
    IN  IF existingValue = Undefined
        THEN SetThenReturn(this_set(h, key, value), value, <<>>)
        ELSE Res(h, existingValue)

\* new HashMap(entries)
HashMap_constructor(es) == HashMap_setAll(HashMap_new, es, "undefined").obj

\* new BoundedHashMap(capacity, strict): strict is "true", "false" or
\* "undefined" (omitted), and `arg2 ?? false` makes the omitted flag false
StrictArgs == {"true", "false", "undefined"}

BoundedHashMap_constructor(capacity, strict) ==
    [cls |-> "BoundedHashMap", map |-> <<>>, capacity |-> capacity,
     strict |-> (IF strict = "undefined" THEN FALSE ELSE strict = "true")]

\* The capacity argument is a number or is missing (Undefined); in this
\* position 0 - 1 is the number -1.
MinusOne == 0 - 1
CapArgs == {Undefined} \cup (MinusOne..MaxCap)

\* the entries argument: up to one entry more than the largest capacity
BoundedEntrySeqs == UNION {[1..n -> Keys \X Vals] : n \in 0..(MaxCap + 1)}

\* new BoundedHashMap(capacity, strict?) is form "capacity" and
\* new BoundedHashMap(entries, capacity, strict?) is form "entries"; in the
\* second, setAll runs while _capacity and _strict are still undefined
BoundedHashMap_new(form, es, capacity, strict) ==
    IF form = "capacity"
    THEN IF capacity # Undefined /\ capacity > 0
         THEN Res(BoundedHashMap_constructor(capacity, strict), Undefined)
         ELSE [Res([cls |-> "none", map |-> <<>>, capacity |-> 0, strict |-> FALSE],
              Undefined) EXCEPT !.threw = TRUE]
    ELSE LET filled == HashMap_setAll(
                 [cls |-> "BoundedHashMap", map |-> <<>>, capacity |-> Undefined,
                  strict |-> FALSE], es, "undefined")
         IN  [filled EXCEPT !.obj = [filled.obj EXCEPT
                 !.capacity = capacity,
                 !.strict = (IF strict = "undefined" THEN FALSE ELSE strict = "true")]]

\* ============================================ EnMap and ExtMap (extend Map)
\* The object is the native Map itself.  EnMap_* follow src/src/EnMap.ts; the
\* second EnMap source differs from it in merge only (EnMapDoc_merge).

\* new EnMap(args), new ExtMap(args): super(args)
EnMap_constructor(es) == MapFrom(<<>>, es)

\* delete(key) is delete(key, Undefined)
EnMap_delete(m, key, value) ==
    IF value = Undefined
    THEN ResOk(MapDelete(m, key), MapHas(m, key))
    ELSE LET currentValue == MapGet(m, key)
         IN  IF currentValue # Undefined /\ currentValue = value
             THEN ResOk(MapDelete(m, key), MapHas(m, key))
             ELSE ResOk(m, FALSE)

EnMap_set(m, key, value) == Res(MapSet(m, key, value), This)

\* mutant: only `undefined` removes, as in HashMap.compute
EnMap_compute_undefinedOnly(m, key, r) ==
    LET newValue == r
        calls == << <<key, MapGet(m, key)>> >>
    IN  IF newValue = Undefined
        THEN [Res(EnMap_delete(m, key, Undefined).obj, Undefined) EXCEPT !.calls = calls]
        ELSE [Res(EnMap_set(m, key, newValue).obj, newValue) EXCEPT !.calls = calls]

EnMap_compute(m, key, r) ==
    LET newValue == r
        calls == << <<key, MapGet(m, key)>> >>
    IN  IF __isNullish(newValue)
        THEN [Res(EnMap_delete(m, key, Undefined).obj, Undefined) EXCEPT !.calls = calls]
        ELSE [Res(EnMap_set(m, key, newValue).obj, newValue) EXCEPT !.calls = calls]

\* mutant: the test is has(key), as in ArrayMap.computeIfAbsent
EnMap_computeIfAbsent_hasKey(m, key, r) ==
    IF ~MapHas(m, key)
    THEN [Res(EnMap_set(m, key, r).obj, r) EXCEPT !.calls = << <<key>> >>]
    ELSE Res(m, MapGet(m, key))

EnMap_computeIfAbsent(m, key, r) ==
    LET value == MapGet(m, key)
    IN  IF __isNullish(value)
        THEN [Res(EnMap_set(m, key, r).obj, r) EXCEPT !.calls = << <<key>> >>]
        ELSE Res(m, value)

\* mutant: a nullish result is stored instead of removing the key
EnMap_computeIfPresent_keeps(m, key, r) ==
    LET oldValue == MapGet(m, key)
    IN  IF ~__isNullish(oldValue)
        THEN [Res(EnMap_set(m, key, r).obj, r) EXCEPT !.calls = << <<key, oldValue>> >>]
        ELSE Res(m, Undefined)

EnMap_computeIfPresent(m, key, r) ==
    LET oldValue == MapGet(m, key)
        newValue == r
        calls == << <<key, oldValue>> >>
    IN  IF ~__isNullish(oldValue)
        THEN IF __isNullish(newValue)
             THEN [Res(EnMap_delete(m, key, Undefined).obj, Undefined)
                     EXCEPT !.calls = calls]
             ELSE [Res(EnMap_set(m, key, newValue).obj, newValue) EXCEPT !.calls = calls]
        ELSE Res(m, Undefined)

\* mutant: `this.get(key) ?? defaultValue`
EnMap_getOrDefault_nullish(m, key, defaultValue) == Coalesce(MapGet(m, key), defaultValue)

EnMap_getOrDefault(m, key, defaultValue) ==
    LET value == MapGet(m, key)
    IN  IF value = Undefined THEN defaultValue ELSE value

\* src/src/EnMap.ts: the result is stored whatever it is
EnMap_merge(m, key, value, r) ==
    LET oldValue == MapGet(m, key)
        newValue == IF ~__isNullish(oldValue) THEN r ELSE value
        calls == IF ~__isNullish(oldValue) THEN << <<oldValue, value>> >> ELSE <<>>
    IN  [Res(EnMap_set(m, key, newValue).obj, newValue) EXCEPT !.calls = calls]

\* the second EnMap source: a nullish result removes the key
EnMapDoc_merge(m, key, value, r) ==
    LET oldValue == MapGet(m, key)
        newValue == IF ~__isNullish(oldValue) THEN r ELSE value
        calls == IF ~__isNullish(oldValue) THEN << <<oldValue, value>> >> ELSE <<>>
    IN  IF __isNullish(newValue)
        THEN [Res(EnMap_delete(m, key, Undefined).obj, Undefined) EXCEPT !.calls = calls]
        ELSE [Res(EnMap_set(m, key, newValue).obj, newValue) EXCEPT !.calls = calls]

RECURSIVE EnMap_setAllFrom(_, _, _)
EnMap_setAllFrom(m, es, override) ==
    IF es = <<>> THEN m
    ELSE LET k == es[1][1]
             v == es[1][2]
         IN  EnMap_setAllFrom(
                 IF ~override
                 THEN (IF ~MapHas(m, k) THEN EnMap_set(m, k, v).obj ELSE m)
                 ELSE EnMap_set(m, k, v).obj,
                 Tail(es), override)

\* override is "true", "false" or "undefined" (omitted: the default is true)
EnMap_setAll(m, es, override) == Res(EnMap_setAllFrom(m, es, override # "false"), This)

EnMap_setIfAbsent(m, key, value) ==
    LET currentValue == MapGet(m, key)
    IN  IF __isNullish(currentValue)
        THEN Res(EnMap_set(m, key, value).obj, value)
        ELSE Res(m, currentValue)

\* replace(key, value) is replace(key, value, Undefined)
EnMap_replace(m, key, v1, v2) ==
    LET oldValue == MapGet(m, key)
    IN  IF v2 = Undefined
        THEN IF oldValue = Undefined THEN Res(m, Undefined)
             ELSE Res(EnMap_set(m, key, v1).obj, oldValue)
        ELSE IF oldValue # Undefined /\ oldValue = v1
             THEN ResOk(EnMap_set(m, key, v2).obj, TRUE)
             ELSE ResOk(m, FALSE)

RECURSIVE EnMap_sweepFrom_skips(_, _, _, _, _)
\* mutant: the iterator steps over the entry that follows a deleted one
EnMap_sweepFrom_skips(m, pred, i, removed, calls) ==
    IF i <= Len(m)
    THEN LET k == m[i][1]
             v == m[i][2]
         IN  IF k \in pred
             THEN EnMap_sweepFrom_skips(EnMap_delete(m, k, Undefined).obj, pred, i + 1,
                                        Append(removed, v), Append(calls, <<v, k, TRUE>>))
             ELSE EnMap_sweepFrom_skips(m, pred, i + 1, removed,
                                        Append(calls, <<v, k, FALSE>>))
    ELSE [Res(m, Undefined) EXCEPT !.out = removed, !.calls = calls]

RECURSIVE EnMap_sweepFrom(_, _, _, _, _)
\* `for (const [k, v] of this)` over the live map: i is the iterator's
\* position; deleting the entry under it moves the next entry to position i.
\* Each call fn(v, k, this) is logged with its result.
EnMap_sweepFrom(m, pred, i, removed, calls) ==
    IF i <= Len(m)
    THEN LET k == m[i][1]
             v == m[i][2]
         IN  IF k \in pred
             THEN EnMap_sweepFrom(EnMap_delete(m, k, Undefined).obj, pred, i,
                                  Append(removed, v), Append(calls, <<v, k, TRUE>>))
             ELSE EnMap_sweepFrom(m, pred, i + 1, removed, Append(calls, <<v, k, FALSE>>))
    ELSE [Res(m, Undefined) EXCEPT !.out = removed, !.calls = calls]

EnMap_sweep(m, pred) == EnMap_sweepFrom(m, pred, 1, <<>>, <<>>)

\* ------------------------------------------------------------------ ExtMap
ExtMap_compute(m, key, r) ==
    LET newValue == r
        calls == << <<key, MapGet(m, key)>> >>
    IN  IF newValue = Undefined \/ newValue = Null
        THEN [Res(MapDelete(m, key), Undefined) EXCEPT !.calls = calls]
        ELSE [Res(MapSet(m, key, newValue), newValue) EXCEPT !.calls = calls]

ExtMap_computeIfAbsent(m, key, r) ==
    LET value == MapGet(m, key)
    IN  IF value = Undefined \/ value = Null
        THEN [Res(MapSet(m, key, r), r) EXCEPT !.calls = << <<key>> >>]
        ELSE Res(m, value)

ExtMap_computeIfPresent(m, key, r) ==
    LET oldValue == MapGet(m, key)
        newValue == r
        calls == << <<key, oldValue>> >>
    IN  IF oldValue # Undefined
        THEN IF newValue = Undefined \/ newValue = Null
             THEN [Res(MapDelete(m, key), Undefined) EXCEPT !.calls = calls]
             ELSE [Res(MapSet(m, key, newValue), newValue) EXCEPT !.calls = calls]
        ELSE Res(m, Undefined)

\* ExtMap does not override delete: a second argument is ignored
ExtMap_delete(m, key, value) == ResOk(MapDelete(m, key), MapHas(m, key))

ExtMap_getOrDefault(m, key, defaultValue) == Coalesce(MapGet(m, key), defaultValue)

ExtMap_merge(m, key, value, r) ==
    LET oldValue == MapGet(m, key)
        newValue == IF oldValue # Undefined THEN r ELSE value
        calls == IF oldValue # Undefined THEN << <<oldValue, value>> >> ELSE <<>>
    IN  [Res(MapSet(m, key, newValue), newValue) EXCEPT !.calls = calls]

\* replace(key, newValue) is replace(key, newValue, Undefined); a key whose
\* get is undefined makes both forms return undefined
ExtMap_replace(m, key, v1, v2) ==
    LET oldValue == MapGet(m, key)
    IN  IF oldValue = Undefined THEN Res(m, Undefined)
        ELSE IF v2 = Undefined THEN Res(MapSet(m, key, v1), oldValue)
        ELSE IF oldValue = v1 THEN ResOk(MapSet(m, key, v2), TRUE)
        ELSE ResOk(m, FALSE)

\* setAll(other): every entry is set; ExtMap has no override parameter
ExtMap_setAll(m, es, override) == Res(MapFrom(m, es), This)

\* mutant: a key mapped to null is left alone
ExtMap_setIfAbsent_nullKept(m, key, value) ==
    LET currentValue == MapGet(m, key)
    IN  IF currentValue = Undefined THEN Res(MapSet(m, key, value), value)
        ELSE Res(m, currentValue)

ExtMap_setIfAbsent(m, key, value) ==
    LET currentValue == MapGet(m, key)
    IN  IF currentValue = Undefined THEN Res(MapSet(m, key, value), value)
        ELSE IF currentValue = Null THEN Res(MapSet(m, key, value), Null)
        ELSE Res(m, currentValue)

ExtMap_sweep(m, pred) == EnMap_sweepFrom(m, pred, 1, <<>>, <<>>)

\* ------------------------------------------------------ the record of a call
Call(op, key, arg, arg2, es, res, pre) ==
    [op |-> op, key |-> key, arg |-> arg, arg2 |-> arg2, es |-> es, flag |-> "none",
     r |-> Undefined, kind |-> res.kind, ret |-> res.ret, ok |-> res.ok, threw |-> res.threw, warned |-> res.warned,
     calls |-> res.calls, out |-> res.out, pre |-> pre]

\* between two calls nothing is pending
NoCall == [op |-> "none", key |-> Undefined, arg |-> Undefined, arg2 |-> Undefined,
           es |-> <<>>, flag |-> "none", r |-> Undefined, kind |-> "value",
           ret |-> Undefined, ok |-> FALSE,
           threw |-> FALSE, warned |-> 0, calls |-> <<>>, out |-> <<>>, pre |-> <<>>]

\* no iterator has been created; order lists the live keys by first
\* insertion and removed says whether a key was ever removed
NoIter == [kind |-> "none", i |-> 0, done |-> FALSE, seen |-> <<>>, start |-> {},
           gone |-> {}, other |-> FALSE, order |-> <<>>, removed |-> FALSE]

\* no clone has been made: no object is held by address
NoRefs == [original |-> 0, copy |-> 0, target |-> "none", calls |-> 0]

\* the call has returned to its caller, which goes on to make the next call
Return ==
    /\ last.op # "none"
    /\ last' = NoCall
    /\ UNCHANGED <<a_index, a_keys, a_values, hobj, emap, cls, heap, refs, iter>>

\* ======================================================= ArrayMap: behaviour
AM == [index |-> a_index, keys |-> a_keys, values |-> a_values]

HashMap_none == [cls |-> "none", map |-> <<>>, capacity |-> 0, strict |-> FALSE]

\* r is the value the callback returns (when the call has one and invokes it)
\* es is the entry sequence passed (setAll) and flag says what the call left out
ArrayApply(op, key, arg, arg2, r, es, flag, res) ==
    /\ cls = "ArrayMap"
    /\ last.op = "none"
    /\ a_index' = res.obj.index
    /\ a_keys' = res.obj.keys
    /\ a_values' = res.obj.values
    /\ last' = [Call(op, key, arg, arg2, es, res, AM) EXCEPT !.r = r, !.flag = flag]
    /\ UNCHANGED <<hobj, emap, cls, heap, refs, iter>>

InitArray ==
    /\ \E es \in EntrySeqs :
          LET a == ArrayMap_constructor(es)
          IN  /\ a_index = a.index
              /\ a_keys = a.keys
              /\ a_values = a.values
              /\ last = Call("new", Undefined, Undefined, Undefined, es,
                             Res(a, Undefined), ArrayMap_new)
    /\ hobj = HashMap_none
    /\ emap = <<>>
    /\ cls = "ArrayMap"
    /\ heap = <<>>
    /\ refs = NoRefs
    /\ iter = NoIter

ASet == \E k \in Keys, v \in Vals :
    ArrayApply("set", k, v, Undefined, Undefined, <<>>, "none", ArrayMap_set(AM, k, v))

APut == \E k \in Keys, v \in Vals :
    ArrayApply("put", k, v, Undefined, Undefined, <<>>, "none", ArrayMap_put(AM, k, v))

\* delete(key) and delete(key, value): an omitted value is undefined
ADelete == \E k \in Keys, v \in Vals, given \in BOOLEAN :
    /\ ~given => v = Undefined
    /\ ArrayApply("delete", k, v, Undefined, Undefined, <<>>,
          IF given THEN "given" ELSE "omitted", ArrayMap_delete(AM, k, v))

AClear == ArrayApply("clear", Undefined, Undefined, Undefined, Undefined, <<>>, "none", ArrayMap_clear(AM))

ASweep == \E pred \in SUBSET Keys :
    ArrayApply("sweep", Undefined, Undefined, Undefined, Undefined, <<>>, "none", ArrayMap_sweep(AM, pred))

ACompute == \E k \in Keys, r \in Vals :
    ArrayApply("compute", k, Undefined, Undefined, r, <<>>, "none", ArrayMap_compute(AM, k, r))

AComputeIfAbsent == \E k \in Keys, r \in Vals :
    ArrayApply("computeIfAbsent", k, Undefined, Undefined, r, <<>>, "none",
               ArrayMap_computeIfAbsent(AM, k, r))

AComputeIfPresent == \E k \in Keys, r \in Vals :
    ArrayApply("computeIfPresent", k, Undefined, Undefined, r, <<>>, "none",
               ArrayMap_computeIfPresent(AM, k, r))

AMerge == \E k \in Keys, v \in Vals, r \in Vals :
    ArrayApply("merge", k, v, Undefined, r, <<>>, "none", ArrayMap_merge(AM, k, v, r))

\* replace(key, newValue) and replace(key, oldValue, newValue): an omitted
\* third argument is undefined
AReplace == \E k \in Keys, v1 \in Vals, v2 \in Vals, given \in BOOLEAN :
    /\ ~given => v2 = Undefined
    /\ ArrayApply("replace", k, v1, v2, Undefined, <<>>,
          IF given THEN "given" ELSE "omitted", ArrayMap_replace(AM, k, v1, v2))

ASetIfAbsent == \E k \in Keys, v \in Vals :
    ArrayApply("setIfAbsent", k, v, Undefined, Undefined, <<>>, "none", ArrayMap_setIfAbsent(AM, k, v))

ASetAll == \E es \in EntrySeqs, override \in Overrides :
    ArrayApply("setAll", Undefined, Undefined, Undefined, Undefined, es, override,
        ArrayMap_setAll(AM, es, override))

NextArray ==
    \/ ASet
    \/ APut
    \/ ADelete
    \/ AClear
    \/ ASweep
    \/ ACompute
    \/ AComputeIfAbsent
    \/ AComputeIfPresent
    \/ AMerge
    \/ AReplace
    \/ ASetIfAbsent
    \/ ASetAll
    \/ Return

SpecArray == InitArray /\ [][NextArray]_vars

\* C1: after any sequence of non-reentrant ArrayMap operations the index, the
\* keys array and the values array have the same size, every indexed key k
\* has _keys[_index.get(k)] = k, and get(k) returns _values[_index.get(k)].
IndexInvariant(a) ==
    /\ IdxSize(a.index) = Len(a.keys)
    /\ Len(a.keys) = Len(a.values)
    /\ \A k \in DOMAIN a.index :
          /\ a.index[k] \in 0..(Len(a.keys) - 1)
          /\ ArrGet(a.keys, a.index[k]) = k
          /\ ArrayMap_get(a, k) = ArrGet(a.values, a.index[k])

C1_IndexConsistent == IndexInvariant(AM)

\* a removal that moved the tail entry into a freed slot has just happened
C1_Witness ==
    /\ last.op \in {"delete", "sweep", "compute", "merge"}
    /\ Len(last.pre.keys) >= 2
    /\ Len(a_keys) = Len(last.pre.keys) - 1
    /\ Len(a_keys) >= 1
    /\ \E k \in DOMAIN a_index : a_index[k] # last.pre.index[k]

\* ================================= HashMap / BoundedHashMap: behaviour
HashApply(op, key, arg, arg2, r, es, flag, res) ==
    /\ cls \in {"HashMap", "BoundedHashMap"}
    /\ last.op = "none"
    /\ hobj' = res.obj
    /\ last' = [Call(op, key, arg, arg2, es, res, hobj) EXCEPT !.r = r, !.flag = flag]
    /\ UNCHANGED <<a_index, a_keys, a_values, emap, cls, heap, refs, iter>>

\* new BoundedHashMap(capacity, strict)
InitBounded ==
    /\ \E capacity \in 1..MaxCap, strict \in StrictArgs :
          /\ hobj = BoundedHashMap_constructor(capacity, strict)
          /\ last = [Call("new", Undefined, capacity, Undefined, <<>>,
                          Res(hobj, Undefined), HashMap_new) EXCEPT !.flag = strict]
    /\ a_index = EmptyIdx
    /\ a_keys = <<>>
    /\ a_values = <<>>
    /\ emap = <<>>
    /\ cls = "BoundedHashMap"
    /\ heap = <<>>
    /\ refs = NoRefs
    /\ iter = NoIter

HSet == \E k \in Keys, v \in Vals :
    HashApply("set", k, v, Undefined, Undefined, <<>>, "none", this_set(hobj, k, v))

HPut == \E k \in Keys, v \in Vals :
    HashApply("put", k, v, Undefined, Undefined, <<>>, "none", HashMap_put(hobj, k, v))

\* delete(key) and delete(key, value): an omitted value is undefined
HDelete == \E k \in Keys, v \in Vals, given \in BOOLEAN :
    /\ ~given => v = Undefined
    /\ HashApply("delete", k, v, Undefined, Undefined, <<>>,
          IF given THEN "given" ELSE "omitted", HashMap_delete(hobj, k, v))

HClear == HashApply("clear", Undefined, Undefined, Undefined, Undefined, <<>>, "none", HashMap_clear(hobj))

HSweep == \E pred \in SUBSET Keys :
    HashApply("sweep", Undefined, Undefined, Undefined, Undefined, <<>>, "none", HashMap_sweep(hobj, pred))

HCompute == \E k \in Keys, r \in Vals :
    HashApply("compute", k, Undefined, Undefined, r, <<>>, "none", HashMap_compute(hobj, k, r))

HComputeIfAbsent == \E k \in Keys, r \in Vals :
    HashApply("computeIfAbsent", k, Undefined, Undefined, r, <<>>, "none",
              HashMap_computeIfAbsent(hobj, k, r))

HComputeIfPresent == \E k \in Keys, r \in Vals :
    HashApply("computeIfPresent", k, Undefined, Undefined, r, <<>>, "none",
              HashMap_computeIfPresent(hobj, k, r))

HMerge == \E k \in Keys, v \in Vals, r \in Vals :
    HashApply("merge", k, v, Undefined, r, <<>>, "none", HashMap_merge(hobj, k, v, r))

\* replace(key, newValue) and replace(key, oldValue, newValue): an omitted
\* third argument is undefined
HReplace == \E k \in Keys, v1 \in Vals, v2 \in Vals, given \in BOOLEAN :
    /\ ~given => v2 = Undefined
    /\ HashApply("replace", k, v1, v2, Undefined, <<>>,
          IF given THEN "given" ELSE "omitted", HashMap_replace(hobj, k, v1, v2))

HSetIfAbsent == \E k \in Keys, v \in Vals :
    HashApply("setIfAbsent", k, v, Undefined, Undefined, <<>>, "none", HashMap_setIfAbsent(hobj, k, v))

HSetAll == \E es \in EntrySeqs, override \in Overrides :
    HashApply("setAll", Undefined, Undefined, Undefined, Undefined, es, override,
        HashMap_setAll(hobj, es, override))

NextHash ==
    \/ HSet
    \/ HPut
    \/ HDelete
    \/ HClear
    \/ HSweep
    \/ HCompute
    \/ HComputeIfAbsent
    \/ HComputeIfPresent
    \/ HMerge
    \/ HReplace
    \/ HSetIfAbsent
    \/ HSetAll
    \/ Return

SpecBounded == InitBounded /\ [][NextHash]_vars

\* the last call was set(key, value) on a BoundedHashMap
BoundedSetCalled == last.op = "set" /\ last.pre.cls = "BoundedHashMap"

\* ... for a key that was not in the map, with the map at (or over) capacity
BoundedSetRejected ==
    /\ BoundedSetCalled
    /\ ~HashMap_has(last.pre, last.key)
    /\ HashMap_size(last.pre) >= last.pre.capacity

\* C2: the number of entries of a BoundedHashMap never exceeds its capacity,
\* whatever sequence of public mutating operations is applied.
C2_SizeWithinCapacity ==
    hobj.cls = "BoundedHashMap" => HashMap_size(hobj) <= hobj.capacity

\* C3: in strict mode, set of a new key at capacity throws and mutates
\* nothing: keys, values and size are as before the call.
C3_StrictRejects ==
    (BoundedSetRejected /\ last.pre.strict) =>
        /\ last.threw
        /\ hobj = last.pre
        /\ HashMap_size(hobj) = HashMap_size(last.pre)

C3_Witness == BoundedSetRejected /\ last.pre.strict /\ last.threw

\* C4: in lenient mode (strict false, the default when the flag is omitted),
\* set of a new key at capacity does not throw, warns once, skips the
\* insertion and returns the key's current value, undefined.
C4_LenientSkips ==
    /\ (last.op = "new" /\ last.flag = "undefined") => ~hobj.strict
    /\ (BoundedSetRejected /\ ~last.pre.strict) =>
          /\ ~last.threw
          /\ last.warned = 1
          /\ hobj = last.pre
          /\ ~HashMap_has(hobj, last.key)
          /\ last.ret = HashMap_get(hobj, last.key)
          /\ last.ret = Undefined

C4_Witness ==
    BoundedSetRejected /\ ~last.pre.strict /\ last.warned = 1 /\ last.arg # Undefined

\* C5: in either mode, set of a key that is in the map stores the value
\* without throwing or warning, whatever the size and the capacity, and
\* leaves the size (and every other entry) unchanged.
C5_UpdateAlwaysAllowed ==
    (BoundedSetCalled /\ HashMap_has(last.pre, last.key)) =>
        /\ ~last.threw
        /\ last.warned = 0
        /\ HashMap_has(hobj, last.key)
        /\ HashMap_get(hobj, last.key) = last.arg
        /\ HashMap_size(hobj) = HashMap_size(last.pre)
        /\ \A k \in Keys \ {last.key} :
              /\ HashMap_has(hobj, k) = HashMap_has(last.pre, k)
              /\ HashMap_get(hobj, k) = HashMap_get(last.pre, k)

\* an update of a key's value in a map that is at capacity
C5_Witness ==
    /\ BoundedSetCalled
    /\ HashMap_has(last.pre, last.key)
    /\ HashMap_size(last.pre) >= last.pre.capacity
    /\ HashMap_get(last.pre, last.key) # last.arg
    /\ HashMap_get(hobj, last.key) = last.arg

\* ======================================== EnMap / ExtMap: behaviour
\* cls is the class of the instance: "EnMap" (src/src/EnMap.ts), "EnMapDoc"
\* (the second EnMap source) or "ExtMap"
MapClasses == {"EnMap", "EnMapDoc", "ExtMap"}

EnMapClasses == {"EnMap", "EnMapDoc"}

\* the entries of a Map passed to setAll: no key twice
MapEntrySeqs == {es \in EntrySeqs : \A i, j \in 1..Len(es) : es[i][1] = es[j][1] => i = j}

Map_compute(c, m, key, r) ==
    IF c = "ExtMap" THEN ExtMap_compute(m, key, r) ELSE EnMap_compute(m, key, r)

Map_computeIfAbsent(c, m, key, r) ==
    IF c = "ExtMap" THEN ExtMap_computeIfAbsent(m, key, r)
    ELSE EnMap_computeIfAbsent(m, key, r)

Map_computeIfPresent(c, m, key, r) ==
    IF c = "ExtMap" THEN ExtMap_computeIfPresent(m, key, r)
    ELSE EnMap_computeIfPresent(m, key, r)

Map_delete(c, m, key, value) ==
    IF c = "ExtMap" THEN ExtMap_delete(m, key, value) ELSE EnMap_delete(m, key, value)

Map_merge(c, m, key, value, r) ==
    IF c = "ExtMap" THEN ExtMap_merge(m, key, value, r)
    ELSE IF c = "EnMapDoc" THEN EnMapDoc_merge(m, key, value, r)
    ELSE EnMap_merge(m, key, value, r)

Map_replace(c, m, key, v1, v2) ==
    IF c = "ExtMap" THEN ExtMap_replace(m, key, v1, v2) ELSE EnMap_replace(m, key, v1, v2)

Map_setAll(c, m, es, override) ==
    IF c = "ExtMap" THEN ExtMap_setAll(m, es, override) ELSE EnMap_setAll(m, es, override)

Map_setIfAbsent(c, m, key, value) ==
    IF c = "ExtMap" THEN ExtMap_setIfAbsent(m, key, value)
    ELSE EnMap_setIfAbsent(m, key, value)

Map_sweep(c, m, pred) ==
    IF c = "ExtMap" THEN ExtMap_sweep(m, pred) ELSE EnMap_sweep(m, pred)

MapApply(op, key, arg, arg2, r, es, flag, res) ==
    /\ cls \in MapClasses
    /\ last.op = "none"
    /\ emap' = res.obj
    /\ last' = [Call(op, key, arg, arg2, es, res, emap) EXCEPT !.r = r, !.flag = flag]
    /\ UNCHANGED <<a_index, a_keys, a_values, hobj, cls, heap, refs, iter>>

InitMap ==
    /\ cls \in MapClasses
    /\ \E es \in EntrySeqs :
          /\ emap = EnMap_constructor(es)
          /\ last = Call("new", Undefined, Undefined, Undefined, es,
                         Res(emap, Undefined), <<>>)
    /\ a_index = EmptyIdx
    /\ a_keys = <<>>
    /\ a_values = <<>>
    /\ hobj = HashMap_none
    /\ heap = <<>>
    /\ refs = NoRefs
    /\ iter = NoIter

MSet == \E k \in Keys, v \in Vals :
    MapApply("set", k, v, Undefined, Undefined, <<>>, "none", EnMap_set(emap, k, v))

\* delete(key) and delete(key, value): an omitted value is undefined
MDelete == \E k \in Keys, v \in Vals, given \in BOOLEAN :
    /\ ~given => v = Undefined
    /\ MapApply("delete", k, v, Undefined, Undefined, <<>>,
          IF given THEN "given" ELSE "omitted", Map_delete(cls, emap, k, v))

MClear == MapApply("clear", Undefined, Undefined, Undefined, Undefined, <<>>, "none",
                   Res(<<>>, Undefined))

MSweep == \E pred \in SUBSET Keys :
    MapApply("sweep", Undefined, Undefined, Undefined, Undefined, <<>>, "none",
             Map_sweep(cls, emap, pred))

MCompute == \E k \in Keys, r \in Vals :
    MapApply("compute", k, Undefined, Undefined, r, <<>>, "none", Map_compute(cls, emap, k, r))

MComputeIfAbsent == \E k \in Keys, r \in Vals :
    MapApply("computeIfAbsent", k, Undefined, Undefined, r, <<>>, "none",
             Map_computeIfAbsent(cls, emap, k, r))

MComputeIfPresent == \E k \in Keys, r \in Vals :
    MapApply("computeIfPresent", k, Undefined, Undefined, r, <<>>, "none",
             Map_computeIfPresent(cls, emap, k, r))

MMerge == \E k \in Keys, v \in Vals, r \in Vals :
    MapApply("merge", k, v, Undefined, r, <<>>, "none", Map_merge(cls, emap, k, v, r))

\* replace(key, newValue) and replace(key, oldValue, newValue): an omitted
\* third argument is undefined
MReplace == \E k \in Keys, v1 \in Vals, v2 \in Vals, given \in BOOLEAN :
    /\ ~given => v2 = Undefined
    /\ MapApply("replace", k, v1, v2, Undefined, <<>>,
          IF given THEN "given" ELSE "omitted", Map_replace(cls, emap, k, v1, v2))

MSetIfAbsent == \E k \in Keys, v \in Vals :
    MapApply("setIfAbsent", k, v, Undefined, Undefined, <<>>, "none",
             Map_setIfAbsent(cls, emap, k, v))

MSetAll == \E es \in MapEntrySeqs, override \in Overrides :
    MapApply("setAll", Undefined, Undefined, Undefined, Undefined, es, override,
        Map_setAll(cls, emap, es, override))

NextMap ==
    \/ MSet
    \/ MDelete
    \/ MClear
    \/ MSweep
    \/ MCompute
    \/ MComputeIfAbsent
    \/ MComputeIfPresent
    \/ MMerge
    \/ MReplace
    \/ MSetIfAbsent
    \/ MSetAll
    \/ Return

SpecMap == InitMap /\ [][NextMap]_vars

\* every key other than the last call's has the entry it had before the call
OthersUnchanged ==
    \A k \in Keys \ {last.key} :
        /\ MapHas(emap, k) = MapHas(last.pre, k)
        /\ MapGet(emap, k) = MapGet(last.pre, k)

\* the callback's result was removed-on-nullish or stored-and-returned
RemovedOrStored ==
    IF __isNullish(last.r)
    THEN ~MapHas(emap, last.key) /\ last.ret = Undefined
    ELSE MapHas(emap, last.key) /\ MapGet(emap, last.key) = last.r /\ last.ret = last.r

\* C6: EnMap.compute calls fn exactly once with (key, get(key)); a nullish
\* result removes the key and returns undefined, any other result is stored
\* and returned; other keys are unchanged, and a nullish result for a missing
\* key leaves the map unchanged.
C6_Compute ==
    (cls \in EnMapClasses /\ last.op = "compute") =>
        /\ last.calls = << <<last.key, MapGet(last.pre, last.key)>> >>
        /\ last.kind = "value"
        /\ RemovedOrStored
        /\ OthersUnchanged
        /\ (~MapHas(last.pre, last.key) /\ __isNullish(last.r)) => emap = last.pre

\* compute removed a key because fn returned null
C6_Witness ==
    /\ cls \in EnMapClasses
    /\ last.op = "compute"
    /\ last.r = Null
    /\ MapHas(last.pre, last.key)
    /\ ~MapHas(emap, last.key)
    /\ Len(emap) >= 1

\* C7: EnMap.computeIfAbsent calls fn (once, with the key) and stores its
\* result exactly when get(key) is undefined or null; for a key with a usable
\* value fn is not called, the map is unchanged and that value is returned
\* (so a second call after a first one that stored a usable value returns
\* the same value without calling fn).
C7_ComputeIfAbsent ==
    (cls \in EnMapClasses /\ last.op = "computeIfAbsent") =>
        /\ last.kind = "value"
        /\ IF __isNullish(MapGet(last.pre, last.key))
           THEN /\ last.calls = << <<last.key>> >>
                /\ MapHas(emap, last.key)
                /\ MapGet(emap, last.key) = last.r
                /\ last.ret = last.r
                /\ OthersUnchanged
           ELSE /\ last.calls = <<>>
                /\ emap = last.pre
                /\ last.ret = MapGet(last.pre, last.key)

\* fn was not called for a key with a usable value, although it would have
\* returned something else
C7_Witness ==
    /\ cls \in EnMapClasses
    /\ last.op = "computeIfAbsent"
    /\ ~__isNullish(MapGet(last.pre, last.key))
    /\ last.calls = <<>>
    /\ last.r # last.ret
    /\ last.ret = MapGet(emap, last.key)

\* fn was called for a key mapped to null
C7_WitnessNull ==
    /\ cls \in EnMapClasses
    /\ last.op = "computeIfAbsent"
    /\ MapHas(last.pre, last.key)
    /\ MapGet(last.pre, last.key) = Null
    /\ last.calls # <<>>

\* what computeIfPresent does once it has decided whether to call fn
ComputeIfPresentOutcome(called) ==
    IF called
    THEN /\ last.calls = << <<last.key, MapGet(last.pre, last.key)>> >>
         /\ RemovedOrStored
         /\ OthersUnchanged
    ELSE /\ last.calls = <<>>
         /\ last.ret = Undefined
         /\ emap = last.pre

\* C8 as stated: in EnMap and in ExtMap, computeIfPresent calls fn only when
\* get(key) is neither undefined nor null.
C8_Original ==
    last.op = "computeIfPresent" =>
        ComputeIfPresentOutcome(~__isNullish(MapGet(last.pre, last.key)))

\* C8 amended: EnMap.computeIfPresent calls fn only when get(key) is neither
\* undefined nor null; ExtMap.computeIfPresent calls fn whenever get(key) is
\* not undefined, so also for a key mapped to null.  When fn is not called
\* the result is undefined and the map is unchanged; when it is called, a
\* nullish result removes the key and returns undefined, a usable result is
\* stored and returned.
C8_ComputeIfPresent ==
    last.op = "computeIfPresent" =>
        ComputeIfPresentOutcome(
            IF cls = "ExtMap" THEN MapGet(last.pre, last.key) # Undefined
            ELSE ~__isNullish(MapGet(last.pre, last.key)))

\* ExtMap called fn for a key mapped to null and stored its result
C8_Witness ==
    /\ cls = "ExtMap"
    /\ last.op = "computeIfPresent"
    /\ MapGet(last.pre, last.key) = Null
    /\ last.calls = << <<last.key, Null>> >>
    /\ MapGet(emap, last.key) = last.r
    /\ ~__isNullish(last.r)

\* C9: EnMap.merge, in both EnMap sources, for a usable value argument: a key
\* whose get is undefined or null gets value, without a call of fn, and value
\* is returned; otherwise fn(old, value) is called once, a nullish result
\* removes the key and returns undefined, a usable one is stored and returned.
C9_Merge ==
    (cls \in EnMapClasses /\ last.op = "merge" /\ ~__isNullish(last.arg)) =>
        IF __isNullish(MapGet(last.pre, last.key))
        THEN /\ last.calls = <<>>
             /\ MapGet(emap, last.key) = last.arg
             /\ last.ret = last.arg
        ELSE /\ last.calls = << <<MapGet(last.pre, last.key), last.arg>> >>
             /\ RemovedOrStored

\* the three-way result of setIfAbsent
SetIfAbsentThreeWay ==
    IF ~MapHas(last.pre, last.key)
    THEN MapGet(emap, last.key) = last.arg /\ MapHas(emap, last.key)
         /\ last.ret = last.arg
    ELSE IF MapGet(last.pre, last.key) = Null
    THEN MapGet(emap, last.key) = last.arg /\ last.ret = Null
    ELSE IF MapGet(last.pre, last.key) # Undefined
    THEN emap = last.pre /\ last.ret = MapGet(last.pre, last.key)
    ELSE MapGet(emap, last.key) = last.arg /\ last.ret = last.arg

\* the two-way result: a nullish or missing entry is replaced by value, which
\* is returned
SetIfAbsentTwoWay ==
    IF __isNullish(MapGet(last.pre, last.key))
    THEN MapGet(emap, last.key) = last.arg /\ MapHas(emap, last.key)
         /\ last.ret = last.arg
    ELSE emap = last.pre /\ last.ret = MapGet(last.pre, last.key)

\* C10 as stated: in EnMap and ExtMap setIfAbsent(key, value), here with a
\* usable value, stores value and returns it
\* for a missing key, stores value and returns null for a key mapped to null,
\* and returns the existing usable value without changing the map.
C10_Original ==
    (last.op = "setIfAbsent" /\ ~__isNullish(last.arg)) =>
        SetIfAbsentThreeWay /\ OthersUnchanged

\* C10 amended: ExtMap.setIfAbsent has the three-way result (a key mapped to
\* undefined counts as missing); EnMap.setIfAbsent has a two-way result: for
\* a key that is missing or mapped to null or undefined, value is stored and
\* value is returned, and for a key with a usable value the map is unchanged
\* and the existing value is returned.
C10_SetIfAbsent ==
    last.op = "setIfAbsent" =>
        /\ last.kind = "value"
        /\ OthersUnchanged
        /\ IF cls = "ExtMap" THEN SetIfAbsentThreeWay ELSE SetIfAbsentTwoWay

\* EnMap replaced a null and returned the new value, not null
C10_Witness ==
    /\ cls \in EnMapClasses
    /\ last.op = "setIfAbsent"
    /\ MapHas(last.pre, last.key)
    /\ MapGet(last.pre, last.key) = Null
    /\ ~__isNullish(last.arg)
    /\ MapGet(emap, last.key) = last.arg
    /\ last.ret = last.arg

\* ===================== ArrayMap, HashMap, EnMap, ExtMap: one of them at a time
\* new HashMap(entries)
InitHash ==
    /\ \E es \in EntrySeqs :
          /\ hobj = HashMap_constructor(es)
          /\ last = Call("new", Undefined, Undefined, Undefined, es,
                         Res(hobj, Undefined), HashMap_new)
    /\ a_index = EmptyIdx
    /\ a_keys = <<>>
    /\ a_values = <<>>
    /\ emap = <<>>
    /\ cls = "HashMap"
    /\ heap = <<>>
    /\ refs = NoRefs
    /\ iter = NoIter

\* an instance of one of the classes is constructed from entries and then
\* called; the class guards of ArrayApply, HashApply and MapApply select the
\* operations of its class
SpecStores == (InitArray \/ InitHash \/ InitMap) /\ [][NextArray \/ NextHash \/ NextMap]_vars

\* the instance, and has / get / size / toArray of its class on an instance o
instance == IF cls = "ArrayMap" THEN AM ELSE IF cls \in MapClasses THEN emap ELSE hobj

has(o, k) == IF cls = "ArrayMap" THEN ArrayMap_has(o, k)
             ELSE IF cls \in MapClasses THEN MapHas(o, k) ELSE HashMap_has(o, k)

get(o, k) == IF cls = "ArrayMap" THEN ArrayMap_get(o, k)
             ELSE IF cls \in MapClasses THEN MapGet(o, k) ELSE HashMap_get(o, k)

size(o) == IF cls = "ArrayMap" THEN ArrayMap_size(o)
           ELSE IF cls \in MapClasses THEN MapSize(o) ELSE HashMap_size(o)

toArray(o) == IF cls = "ArrayMap" THEN ArrayMap_toArray(o)
              ELSE IF cls \in MapClasses THEN o ELSE o.map

\* every key other than the last call's is as it was before the call
OtherKeysUnchanged ==
    \A k \in Keys \ {last.key} :
        /\ has(instance, k) = has(last.pre, k)
        /\ get(instance, k) = get(last.pre, k)

\* the call changed nothing
NothingChanged ==
    /\ size(instance) = size(last.pre)
    /\ \A k \in Keys : /\ has(instance, k) = has(last.pre, k)
                        /\ get(instance, k) = get(last.pre, k)

\* C11: in HashMap and ArrayMap, replace(key, newValue) on a key that is in
\* the map (has(key) true, whatever value is stored, undefined and null
\* included) stores newValue and returns the prior value; on a key that is
\* not in the map it returns undefined and inserts nothing.
C11_ReplaceIfPresent ==
    (cls \in {"HashMap", "ArrayMap"} /\ last.op = "replace" /\ last.flag = "omitted") =>
        /\ last.kind = "value"
        /\ IF has(last.pre, last.key)
           THEN /\ has(instance, last.key)
                /\ get(instance, last.key) = last.arg
                /\ last.ret = get(last.pre, last.key)
           ELSE /\ last.ret = Undefined
                /\ ~has(instance, last.key)
                /\ size(instance) = size(last.pre)

\* C12: in EnMap and ExtMap, replace(key, expectedOld, newValue) with any
\* values (null and undefined included) returns the boolean true and stores
\* newValue if the key is present with a value equal to expectedOld, and
\* otherwise returns the boolean false and changes nothing.
C12_CompareAndSwap ==
    (cls \in MapClasses /\ last.op = "replace" /\ last.flag = "given") =>
        /\ last.kind = "boolean"
        /\ IF MapHas(last.pre, last.key) /\ MapGet(last.pre, last.key) = last.arg
           THEN /\ last.ok
                /\ MapHas(emap, last.key)
                /\ MapGet(emap, last.key) = last.arg2
                /\ OthersUnchanged
           ELSE /\ ~last.ok
                /\ emap = last.pre

\* C13: in EnMap and ArrayMap, delete(key, expectedValue) with any supplied
\* expectedValue (undefined and null included) removes the entry and returns
\* true if the key is present with a value equal to expectedValue, and
\* otherwise returns false and changes nothing.
C13_DeleteIfEquals ==
    (cls \in EnMapClasses \cup {"ArrayMap"} /\ last.op = "delete" /\ last.flag = "given") =>
        /\ last.kind = "boolean"
        /\ IF has(last.pre, last.key) /\ get(last.pre, last.key) = last.arg
           THEN /\ last.ok
                /\ ~has(instance, last.key)
                /\ size(instance) = size(last.pre) - 1
                /\ OtherKeysUnchanged
           ELSE /\ ~last.ok
                /\ NothingChanged

\* the entries of the map before the last call, in traversal order, each
\* with the result the predicate gave for it
SweepVisits ==
    [i \in 1..Len(toArray(last.pre)) |->
        <<toArray(last.pre)[i][1], toArray(last.pre)[i][2], last.calls[i][3]>>]

\* the values sweep returned: EnMap returns an array of values, HashMap and
\* ArrayMap a map of the removed entries
SweepReturned ==
    IF cls \in MapClasses THEN last.out
    ELSE [i \in 1..Len(last.out) |-> last.out[i][2]]

\* C14: in EnMap, HashMap and ArrayMap, sweep(pred) calls pred once for every
\* entry the map had, in the map's traversal order, removes exactly the
\* entries pred accepted, returns their values in that order, reduces size by
\* their number and leaves every other entry with its value.
C14_Sweep ==
    (cls \in EnMapClasses \cup {"HashMap", "ArrayMap"} /\ last.op = "sweep") =>
        LET before == toArray(last.pre)
            swept == SelectSeq(SweepVisits, LAMBDA t : t[3])
        IN  /\ Len(last.calls) = Len(before)
            /\ \A i \in 1..Len(before) :
                  /\ last.calls[i][1] = before[i][2]
                  /\ last.calls[i][2] = before[i][1]
                  /\ has(instance, before[i][1]) = ~last.calls[i][3]
                  /\ ~last.calls[i][3] => get(instance, before[i][1]) = before[i][2]
            /\ SweepReturned = [i \in 1..Len(swept) |-> swept[i][2]]
            /\ size(instance) = size(last.pre) - Len(swept)
            /\ \A k \in Keys : has(instance, k) => has(last.pre, k)

\* a sweep removed the first of several entries and kept a later one
C14_Witness ==
    /\ cls \in EnMapClasses \cup {"HashMap", "ArrayMap"}
    /\ last.op = "sweep"
    /\ Len(last.calls) >= 2
    /\ last.calls[1][3]
    /\ \E i \in 2..Len(last.calls) : ~last.calls[i][3]
    /\ Len(SweepReturned) >= 1
    /\ size(instance) >= 1

\* a sweep removed two entries with different values
C14_WitnessOrder ==
    /\ last.op = "sweep"
    /\ Len(SweepReturned) >= 2
    /\ SweepReturned[1] # SweepReturned[2]

\* ============================== a HashMap and an ArrayMap called in lockstep
\* what the caller sees of a call: the returned value or boolean, a throw,
\* and the entries of a returned map
Outcome(res) == [kind |-> res.kind, ret |-> res.ret, ok |-> res.ok, threw |-> res.threw,
                 out |-> {res.out[i] : i \in DOMAIN res.out}]

\* both maps hold the same key-to-value mapping
SameMapping ==
    \A k \in Keys : /\ ArrayMap_has(AM, k) = HashMap_has(hobj, k)
                    /\ ArrayMap_get(AM, k) = HashMap_get(hobj, k)

\* new ArrayMap(entries) and new HashMap(entries) from the same entries
InitPair ==
    /\ \E es \in EntrySeqs :
          LET a == ArrayMap_constructor(es)
          IN  /\ a_index = a.index
              /\ a_keys = a.keys
              /\ a_values = a.values
              /\ hobj = HashMap_constructor(es)
              /\ last = [op |-> "new", a |-> Outcome(Res(a, Undefined)),
                         h |-> Outcome(Res(hobj, Undefined))]
    /\ emap = <<>>
    /\ cls = "pair"
    /\ heap = <<>>
    /\ refs = NoRefs
    /\ iter = NoIter

\* the same call, with the same arguments and callback, on both maps; the
\* maps are called for as long as they agree
PairApply(op, ares, hres) ==
    /\ cls = "pair"
    /\ last.op = "none"
    /\ SameMapping
    /\ a_index' = ares.obj.index
    /\ a_keys' = ares.obj.keys
    /\ a_values' = ares.obj.values
    /\ hobj' = hres.obj
    /\ last' = [op |-> op, a |-> Outcome(ares), h |-> Outcome(hres)]
    /\ UNCHANGED <<emap, cls, heap, refs, iter>>

NextPair ==
    \/ \E k \in Keys, v \in Vals :
          PairApply("set", ArrayMap_set(AM, k, v), HashMap_set(hobj, k, v))
    \/ \E k \in Keys, v \in Vals :
          PairApply("put", ArrayMap_put(AM, k, v), HashMap_put(hobj, k, v))
    \/ \E k \in Keys, v \in Vals :
          PairApply("delete", ArrayMap_delete(AM, k, v), HashMap_delete(hobj, k, v))
    \/ \E k \in Keys, r \in Vals :
          PairApply("compute", ArrayMap_compute(AM, k, r), HashMap_compute(hobj, k, r))
    \/ \E k \in Keys, r \in Vals :
          PairApply("computeIfAbsent", ArrayMap_computeIfAbsent(AM, k, r),
                    HashMap_computeIfAbsent(hobj, k, r))
    \/ \E k \in Keys, r \in Vals :
          PairApply("computeIfPresent", ArrayMap_computeIfPresent(AM, k, r),
                    HashMap_computeIfPresent(hobj, k, r))
    \/ \E k \in Keys, v \in Vals, r \in Vals :
          PairApply("merge", ArrayMap_merge(AM, k, v, r), HashMap_merge(hobj, k, v, r))
    \/ \E k \in Keys, v1 \in Vals, v2 \in Vals :
          PairApply("replace", ArrayMap_replace(AM, k, v1, v2),
                    HashMap_replace(hobj, k, v1, v2))
    \/ \E k \in Keys, v \in Vals :
          PairApply("setIfAbsent", ArrayMap_setIfAbsent(AM, k, v),
                    HashMap_setIfAbsent(hobj, k, v))
    \/ \E es \in EntrySeqs, override \in Overrides :
          PairApply("setAll", ArrayMap_setAll(AM, es, override),
                    HashMap_setAll(hobj, es, override))
    \/ \E k \in Keys, v \in Vals :
          PairApply("getOrDefault", Res(AM, ArrayMap_getOrDefault(AM, k, v)),
                    Res(hobj, HashMap_getOrDefault(hobj, k, v)))
    \/ \E pred \in SUBSET Keys :
          PairApply("sweep", ArrayMap_sweep(AM, pred), HashMap_sweep(hobj, pred))
    \/ PairApply("clear", ArrayMap_clear(AM), HashMap_clear(hobj))
    \/ \E k \in Keys :
          PairApply("get", Res(AM, ArrayMap_get(AM, k)), Res(hobj, HashMap_get(hobj, k)))
    \/ \E k \in Keys :
          PairApply("has", ResOk(AM, ArrayMap_has(AM, k)), ResOk(hobj, HashMap_has(hobj, k)))
    \/ PairApply("size", Res(AM, ArrayMap_size(AM)), Res(hobj, HashMap_size(hobj)))
    \/ Return

SpecPair == InitPair /\ [][NextPair]_vars

\* C15: HashMap and ArrayMap behave identically: whatever sequence of calls
\* is made on both with the same arguments and callbacks, every call returns
\* the same result from both and both hold the same mapping after it.
C15_SameBehaviour ==
    cls = "pair" =>
        /\ SameMapping
        /\ last.op # "none" => last.a = last.h

\* C16: in HashMap and ArrayMap a value is absent iff it is undefined or
\* null: compute, computeIfPresent and merge remove the key whenever fn
\* returns undefined or null, and computeIfAbsent, computeIfPresent, merge and
\* setIfAbsent treat a key mapped to undefined or null as a missing key (fn
\* of computeIfAbsent is called and its result stored, fn of computeIfPresent
\* and of merge is not called, the value of setIfAbsent is stored).
C16_OneAbsenceRule ==
    (cls \in {"HashMap", "ArrayMap"} /\ last.op \notin {"none", "new"}) =>
        /\ (last.op \in {"compute", "computeIfPresent", "merge"}
               /\ last.calls # <<>> /\ __isNullish(last.r))
              => ~has(instance, last.key)
        /\ (last.op \in {"computeIfAbsent", "computeIfPresent", "merge", "setIfAbsent"}
               /\ __isNullish(get(last.pre, last.key)))
              => CASE last.op = "computeIfAbsent" ->
                        last.calls = << <<last.key>> >> /\ get(instance, last.key) = last.r
                   [] last.op = "computeIfPresent" ->
                        last.calls = <<>> /\ last.ret = Undefined /\ NothingChanged
                   [] last.op = "merge" -> last.calls = <<>>
                   [] last.op = "setIfAbsent" ->
                        get(instance, last.key) = last.arg /\ last.ret = last.arg

\* ================================================= clone(): two containers
\* Objects live in the heap and are held by address, so that two references
\* to one object can be told from references to two equal objects.  refs
\* holds the address of the original, the address clone() returned (0 before
\* the call), which of the two the last call was made on and the number of
\* calls made.
ArrayMap_clone(a) == ArrayMap_constructor(ArrayMap_toArray(a))

HashMap_clone(h) == HashMap_constructor(h.map)

\* toArray() is [...this]
EnMap_clone(m) == EnMap_constructor(m)

\* mutant: clone() returns the container itself
clone_sameObject(hp, ref) == [heap |-> hp, ref |-> ref]

\* clone() of the object at ref: `new` allocates the next address
clone(hp, ref) ==
    [heap |-> Append(hp, IF cls = "ArrayMap" THEN ArrayMap_clone(hp[ref])
                         ELSE IF cls = "HashMap" THEN HashMap_clone(hp[ref])
                         ELSE EnMap_clone(hp[ref])),
     ref |-> Len(hp) + 1]

CloneClasses == {"ArrayMap", "HashMap", "EnMap"}

\* mutating calls made on the two containers of one run
MaxCalls == 1

\* the object o after the call op of its class
call(o, op, k, v, r, pred) ==
    CASE op = "set" ->
            IF cls = "ArrayMap" THEN ArrayMap_set(o, k, v).obj
            ELSE IF cls = "HashMap" THEN this_set(o, k, v).obj
            ELSE EnMap_set(o, k, v).obj
      [] op = "delete" ->
            IF cls = "ArrayMap" THEN ArrayMap_delete(o, k, Undefined).obj
            ELSE IF cls = "HashMap" THEN HashMap_delete(o, k, Undefined).obj
            ELSE EnMap_delete(o, k, Undefined).obj
      [] op = "clear" ->
            IF cls = "ArrayMap" THEN ArrayMap_clear(o).obj
            ELSE IF cls = "HashMap" THEN HashMap_clear(o).obj
            ELSE <<>>
      [] op = "compute" ->
            IF cls = "ArrayMap" THEN ArrayMap_compute(o, k, r).obj
            ELSE IF cls = "HashMap" THEN HashMap_compute(o, k, r).obj
            ELSE EnMap_compute(o, k, r).obj
      [] op = "merge" ->
            IF cls = "ArrayMap" THEN ArrayMap_merge(o, k, v, r).obj
            ELSE IF cls = "HashMap" THEN HashMap_merge(o, k, v, r).obj
            ELSE EnMap_merge(o, k, v, r).obj
      [] op = "sweep" ->
            IF cls = "ArrayMap" THEN ArrayMap_sweep(o, pred).obj
            ELSE IF cls = "HashMap" THEN HashMap_sweep(o, pred).obj
            ELSE EnMap_sweep(o, pred).obj

\* a container of one of the classes, constructed from entries
InitClone ==
    /\ cls \in CloneClasses
    /\ \E es \in EntrySeqs :
          heap = << IF cls = "ArrayMap" THEN ArrayMap_constructor(es)
                    ELSE IF cls = "HashMap" THEN HashMap_constructor(es)
                    ELSE EnMap_constructor(es) >>
    /\ refs = [original |-> 1, copy |-> 0, target |-> "none", calls |-> 0]
    /\ iter = NoIter
    /\ last = NoCall
    /\ a_index = EmptyIdx
    /\ a_keys = <<>>
    /\ a_values = <<>>
    /\ hobj = HashMap_none
    /\ emap = <<>>

\* the references that hold a container
Held == {t \in {"original", "copy"} : refs[t] # 0}

\* a mutating call on the container that reference t holds
HeapApply(t, op, k, v, r, pred) ==
    /\ cls \in CloneClasses
    /\ refs.calls < MaxCalls
    /\ heap' = [heap EXCEPT ![refs[t]] = call(heap[refs[t]], op, k, v, r, pred)]
    /\ refs' = [refs EXCEPT !.target = t, !.calls = @ + 1]
    /\ UNCHANGED <<a_index, a_keys, a_values, hobj, emap, cls, last, iter>>

\* copy = original.clone()
CClone ==
    /\ cls \in CloneClasses
    /\ refs.copy = 0
    /\ LET c == clone(heap, refs.original)
       IN  /\ heap' = c.heap
           /\ refs' = [refs EXCEPT !.copy = c.ref, !.target = "none"]
    /\ UNCHANGED <<a_index, a_keys, a_values, hobj, emap, cls, last, iter>>

NextClone ==
    \/ CClone
    \/ \E t \in Held, k \in Keys, v \in Vals :
          HeapApply(t, "set", k, v, Undefined, {})
    \/ \E t \in Held, k \in Keys :
          HeapApply(t, "delete", k, Undefined, Undefined, {})
    \/ \E t \in Held :
          HeapApply(t, "clear", Undefined, Undefined, Undefined, {})
    \/ \E t \in Held, k \in Keys, r \in Vals :
          HeapApply(t, "compute", k, Undefined, r, {})
    \/ \E t \in Held, k \in Keys, v \in Usable, r \in Vals :
          HeapApply(t, "merge", k, v, r, {})
    \/ \E t \in Held, pred \in SUBSET Keys :
          HeapApply(t, "sweep", Undefined, Undefined, Undefined, pred)

SpecClone == InitClone /\ [][NextClone]_vars

\* the (key, value) pairs of a container
Pairs(o) == {toArray(o)[i] : i \in DOMAIN toArray(o)}

\* what a step of the two containers may do: clone() hands back a new
\* container equal to the original, a call on one leaves the other as it was
CloneStep ==
    cls \in CloneClasses =>
        /\ (refs.copy = 0 /\ refs'.copy # 0) =>
              /\ refs'.copy # refs'.original
              /\ Pairs(heap'[refs'.copy]) = Pairs(heap[refs.original])
              /\ size(heap'[refs'.copy]) = size(heap[refs.original])
              /\ heap'[refs'.original] = heap[refs.original]
        /\ (refs.copy # 0 /\ refs'.target = "copy") =>
              heap'[refs.original] = heap[refs.original]
        /\ (refs.copy # 0 /\ refs'.target = "original") =>
              heap'[refs.copy] = heap[refs.copy]

\* C17: in EnMap, HashMap and ArrayMap, clone() returns a distinct container
\* with exactly the (key, value) pairs (and the size) of the original, and
\* afterwards a mutation (set, delete, clear, compute, merge, sweep) of the
\* clone never changes the original, nor a mutation of the original the clone.
C17_CloneIndependent == [][CloneStep]_vars

\* the clone of a container with entries has been changed and now differs
\* from the original
C17_Witness ==
    /\ cls \in CloneClasses
    /\ refs.copy # 0
    /\ refs.copy # refs.original
    /\ refs.target = "copy"
    /\ size(heap[refs.original]) >= 1
    /\ Pairs(heap[refs.copy]) # Pairs(heap[refs.original])

\* C18: in HashMap and ArrayMap, put(k, v) always stores: afterwards get(k)
\* is v, the call returns the value stored under k before it (undefined if k
\* was missing), size grows by exactly 1 if and only if k was not in the
\* container before the call, and no other key changes.
C18_Put ==
    (cls \in {"HashMap", "ArrayMap"} /\ last.op = "put") =>
        /\ ~last.threw
        /\ has(instance, last.key)
        /\ get(instance, last.key) = last.arg
        /\ last.kind = "value"
        /\ last.ret = get(last.pre, last.key)
        /\ ~has(last.pre, last.key) => last.ret = Undefined
        /\ size(instance) = size(last.pre) + (IF has(last.pre, last.key) THEN 0 ELSE 1)
        /\ OtherKeysUnchanged

\* put overwrote the usable value of one of two keys with undefined
C18_Witness ==
    /\ cls = "ArrayMap"
    /\ last.op = "put"
    /\ size(last.pre) = 2
    /\ get(last.pre, last.key) \in Usable
    /\ last.arg = Undefined
    /\ last.ret \in Usable

\* put added a second key to a HashMap
C18_WitnessInsert ==
    /\ cls = "HashMap"
    /\ last.op = "put"
    /\ ~has(last.pre, last.key)
    /\ size(instance) = 2

\* ============================================ merge as a counter (README)
\* merge(k, 1, (o, n) => o + n) called again and again on a container that
\* lacks k at first.  last.key is the key counted and refs.calls the number
\* of merge calls made.
MaxMerges == 3

\* (o, n) => o + n on numbers; null counts as 0 and undefined gives NaN
NaN == 0 - 4
Sum(o, n) == IF o = Undefined \/ n = Undefined THEN NaN
             ELSE (IF o = Null THEN 0 ELSE o) + (IF n = Null THEN 0 ELSE n)

\* a container constructed from entries that do not mention the key counted
InitMergeSum ==
    /\ cls \in {"ArrayMap", "HashMap", "EnMap", "EnMapDoc"}
    /\ \E k \in Keys, es \in EntrySeqs :
          /\ \A i \in 1..Len(es) : es[i][1] # k
          /\ LET a == IF cls = "ArrayMap" THEN ArrayMap_constructor(es) ELSE ArrayMap_new
             IN  /\ a_index = a.index
                 /\ a_keys = a.keys
                 /\ a_values = a.values
          /\ hobj = IF cls = "HashMap" THEN HashMap_constructor(es) ELSE HashMap_none
          /\ emap = IF cls \in MapClasses THEN EnMap_constructor(es) ELSE <<>>
          /\ last = [Call("new", k, Undefined, Undefined, es, Res(<<>>, Undefined), <<>>)
                        EXCEPT !.flag = "sum"]
    /\ heap = <<>>
    /\ refs = NoRefs
    /\ iter = NoIter

\* the next merge(k, 1, (o, n) => o + n)
MergeSum ==
    /\ last.flag = "sum"
    /\ refs.calls < MaxMerges
    /\ LET k == last.key
           r == Sum(get(instance, k), 1)
           res == IF cls = "ArrayMap" THEN ArrayMap_merge(AM, k, 1, r)
                  ELSE IF cls = "HashMap" THEN HashMap_merge(hobj, k, 1, r)
                  ELSE Map_merge(cls, emap, k, 1, r)
       IN  /\ a_index' = IF cls = "ArrayMap" THEN res.obj.index ELSE a_index
           /\ a_keys' = IF cls = "ArrayMap" THEN res.obj.keys ELSE a_keys
           /\ a_values' = IF cls = "ArrayMap" THEN res.obj.values ELSE a_values
           /\ hobj' = IF cls = "HashMap" THEN res.obj ELSE hobj
           /\ emap' = IF cls \in MapClasses THEN res.obj ELSE emap
           /\ last' = [Call("merge", k, 1, Undefined, <<>>, res, instance)
                         EXCEPT !.r = r, !.flag = "sum"]
    /\ refs' = [refs EXCEPT !.calls = @ + 1]
    /\ UNCHANGED <<cls, heap, iter>>

NextMergeSum == MergeSum

SpecMergeSum == InitMergeSum /\ [][NextMergeSum]_vars

\* C19: in EnMap, HashMap and ArrayMap, n calls of merge(k, 1, (o, n) => o + n)
\* on a container that lacks k at first leave get(k) = n (3 after three
\* calls); the first call stores 1 without calling the function, and every
\* later call calls it once and returns the running total.
C19_MergeSum ==
    last.flag = "sum" =>
        /\ refs.calls = 0 => ~has(instance, last.key)
        /\ refs.calls >= 1 =>
              /\ has(instance, last.key)
              /\ get(instance, last.key) = refs.calls
              /\ last.ret = refs.calls
        /\ refs.calls = 1 => last.calls = <<>>
        /\ refs.calls > 1 => last.calls = << <<refs.calls - 1, 1>> >>

\* three calls were made and the key holds 3
C19_Witness ==
    /\ last.flag = "sum"
    /\ last.op = "merge"
    /\ refs.calls = 3
    /\ get(instance, last.key) = 3
    /\ size(instance) = 2

\* C20: in HashMap, ArrayMap and EnMap, construction from a sequence of
\* (key, value) pairs, and setAll called without the override argument,
\* override by default: for every key of the input, whether it occurs more
\* than once there or is already in the container, the last value supplied
\* for it is the one stored afterwards.
C20_DefaultOverride ==
    (/\ cls \in {"HashMap", "ArrayMap", "EnMap", "EnMapDoc"}
     /\ \/ last.op = "new"
        \/ last.op = "setAll" /\ last.flag = "undefined") =>
        \A i \in DOMAIN last.es :
            (\A j \in DOMAIN last.es : j > i => last.es[j][1] # last.es[i][1]) =>
                /\ has(instance, last.es[i][1])
                /\ get(instance, last.es[i][1]) = last.es[i][2]

\* ======================================= BoundedHashMap: both constructors
\* Either constructor form is called with any capacity argument; when it
\* throws there is no object (cls is "none") and no call can follow.
InitBoundedNew ==
    /\ \E form \in {"capacity", "entries"}, es \in BoundedEntrySeqs,
          capacity \in CapArgs, strict \in StrictArgs :
          /\ form = "capacity" => es = <<>>
          /\ LET res == BoundedHashMap_new(form, es, capacity, strict)
             IN  /\ hobj = res.obj
                 /\ cls = IF res.threw THEN "none" ELSE "BoundedHashMap"
                 /\ last = [Call("new", Undefined, capacity, strict, es, res, HashMap_new)
                               EXCEPT !.flag = form]
    /\ a_index = EmptyIdx
    /\ a_keys = <<>>
    /\ a_values = <<>>
    /\ emap = <<>>
    /\ heap = <<>>
    /\ refs = NoRefs
    /\ iter = NoIter

SpecBoundedNew == InitBoundedNew /\ [][NextHash]_vars

\* C21: new BoundedHashMap(entries, capacity, strict) applies the capacity
\* bound to the initial entries: the constructed container never holds more
\* than capacity entries, however many distinct keys entries contains.
C21_ConstructedWithinCapacity ==
    (last.op = "new" /\ last.flag = "entries" /\ ~last.threw
        /\ last.arg # Undefined /\ last.arg > 0) =>
        HashMap_size(hobj) <= last.arg

\* C22: constructing a BoundedHashMap throws whenever the capacity supplied
\* is not a positive integer (zero, negative or missing), in the form
\* (capacity, strict) and in the form (entries, capacity, strict); no
\* BoundedHashMap exists whose capacity is not a positive integer.
C22_InvalidCapacityRejected ==
    /\ (last.op = "new" /\ last.flag \in {"capacity", "entries"}
           /\ (last.arg = Undefined \/ last.arg <= 0)) => last.threw
    /\ cls = "BoundedHashMap" => (hobj.capacity # Undefined /\ hobj.capacity > 0)

\* =============================================== EnMap, ExtMap: getOrDefault
MGetOrDefault == \E k \in Keys, v \in Vals :
    MapApply("getOrDefault", k, v, Undefined, Undefined, <<>>, "none",
        Res(emap, IF cls = "ExtMap" THEN ExtMap_getOrDefault(emap, k, v)
                  ELSE EnMap_getOrDefault(emap, k, v)))

\* set and delete reach every content of the map; then it is read
NextMapRead ==
    \/ MSet
    \/ MDelete
    \/ MGetOrDefault
    \/ Return

SpecMapRead == InitMap /\ [][NextMapRead]_vars

\* C24: EnMap.getOrDefault(key, defaultValue) returns defaultValue exactly
\* when the key does not exist (get(key) is undefined); for a key mapped to
\* null it returns null, otherwise the stored value; it never changes the map.
C24_GetOrDefault ==
    (cls \in EnMapClasses /\ last.op = "getOrDefault") =>
        /\ last.ret = IF MapGet(last.pre, last.key) = Undefined
                      THEN last.arg ELSE MapGet(last.pre, last.key)
        /\ MapGet(last.pre, last.key) = Null => last.ret = Null
        /\ emap = last.pre

\* the key is mapped to null and a usable default was given
C24_Witness ==
    /\ cls \in EnMapClasses
    /\ last.op = "getOrDefault"
    /\ MapHas(last.pre, last.key)
    /\ MapGet(last.pre, last.key) = Null
    /\ last.arg \in Usable
    /\ last.ret = Null

\* the key is missing and the default comes back
C24_WitnessDefault ==
    /\ cls \in EnMapClasses
    /\ last.op = "getOrDefault"
    /\ ~MapHas(last.pre, last.key)
    /\ last.arg \in Usable
    /\ last.ret = last.arg

\* ================================================ ArrayMap: removal by swap
\* C25: ArrayMap.delete(k) with one argument returns false and changes
\* nothing when k is missing; when k is at position p and L is the last
\* position it returns true, has(k) is false afterwards, size is one less,
\* the entry formerly at L is at position p when p # L (and indexed at p),
\* both arrays have lost their last slot, and every other entry keeps its
\* position and value.
C25_SwapRemove ==
    (cls = "ArrayMap" /\ last.op = "delete" /\ last.flag = "omitted") =>
        /\ last.kind = "boolean"
        /\ IF ~IdxHas(last.pre.index, last.key)
           THEN ~last.ok /\ AM = last.pre
           ELSE LET p == last.pre.index[last.key]
                    L == Len(last.pre.keys) - 1
                IN  /\ last.ok
                    /\ ~ArrayMap_has(AM, last.key)
                    /\ ArrayMap_size(AM) = ArrayMap_size(last.pre) - 1
                    /\ Len(a_keys) = L
                    /\ Len(a_values) = L
                    /\ p # L =>
                          /\ ArrGet(a_keys, p) = ArrGet(last.pre.keys, L)
                          /\ ArrGet(a_values, p) = ArrGet(last.pre.values, L)
                          /\ IdxGet(a_index, ArrGet(last.pre.keys, L)) = p
                    /\ \A i \in 0..(L - 1) :
                          i # p =>
                              /\ ArrGet(a_keys, i) = ArrGet(last.pre.keys, i)
                              /\ ArrGet(a_values, i) = ArrGet(last.pre.values, i)
                              /\ IdxGet(a_index, ArrGet(a_keys, i)) = i

\* the first of two entries was removed and the last one took its position
C25_Witness ==
    /\ cls = "ArrayMap"
    /\ last.op = "delete"
    /\ last.flag = "omitted"
    /\ last.ok
    /\ Len(last.pre.keys) >= 2
    /\ IdxGet(last.pre.index, last.key) = 0
    /\ ArrGet(last.pre.values, 0) # ArrGet(last.pre.values, Len(last.pre.keys) - 1)
    /\ Len(a_keys) = Len(last.pre.keys) - 1

\* ============================================== ArrayMap: update in place
\* the last call is one the claim lists: set, put, replace, or
\* computeIfPresent / compute / merge whose result is usable
UpdatingCall ==
    \/ last.op \in {"set", "put", "replace"}
    \/ last.op \in {"computeIfPresent", "compute"} /\ last.r \in Usable
    \/ last.op = "merge" /\ last.ret \in Usable

\* C26: in ArrayMap, updating an existing key (set, put, replace with two or
\* three arguments, computeIfPresent / compute / merge with a usable result)
\* overwrites only _values[_index.get(key)]: _keys, _index, size, the key's
\* position and every other key's value are unchanged; inserting a new key
\* (set, put, compute or merge with a usable result) appends it at position
\* length - 1.
C26_UpdateInPlace ==
    (cls = "ArrayMap" /\ UpdatingCall) =>
        IF IdxHas(last.pre.index, last.key)
        THEN /\ a_keys = last.pre.keys
             /\ a_index = last.pre.index
             /\ ArrayMap_size(AM) = ArrayMap_size(last.pre)
             /\ Len(a_values) = Len(last.pre.values)
             /\ \A i \in 0..(Len(a_values) - 1) :
                   i # last.pre.index[last.key] =>
                       ArrGet(a_values, i) = ArrGet(last.pre.values, i)
             /\ last.op \in {"set", "put"} => ArrayMap_get(AM, last.key) = last.arg
        ELSE last.op \in {"set", "put", "compute", "merge"} =>
             /\ a_keys = Append(last.pre.keys, last.key)
             /\ Len(a_values) = Len(last.pre.values) + 1
             /\ IdxGet(a_index, last.key) = Len(a_keys) - 1
             /\ \A i \in 0..(Len(last.pre.values) - 1) :
                   ArrGet(a_values, i) = ArrGet(last.pre.values, i)
             /\ \A k \in DOMAIN last.pre.index : IdxGet(a_index, k) = last.pre.index[k]

\* the first of two keys got a new value by set
C26_Witness ==
    /\ cls = "ArrayMap"
    /\ last.op = "set"
    /\ Len(last.pre.keys) = 2
    /\ IdxGet(last.pre.index, last.key) = 0
    /\ ArrGet(last.pre.values, 0) # last.arg
    /\ ArrGet(a_values, 0) = last.arg

\* a second key was appended by put
C26_WitnessInsert ==
    /\ cls = "ArrayMap"
    /\ last.op = "put"
    /\ Len(last.pre.keys) = 1
    /\ ~IdxHas(last.pre.index, last.key)
    /\ IdxGet(a_index, last.key) = 1

\* ================================ BoundedHashMap: the inherited operations
\* C28: on a BoundedHashMap (either mode), whenever computeIfAbsent,
\* setIfAbsent, merge or compute returns, without throwing, a value v that
\* is not undefined for key k, get(k) right afterwards returns v, also when
\* the map is at capacity and k is a new key.
C28_ReturnedIsStored ==
    (/\ last.op \in {"computeIfAbsent", "setIfAbsent", "merge", "compute"}
     /\ last.pre.cls = "BoundedHashMap"
     /\ ~last.threw
     /\ last.ret # Undefined) =>
        HashMap_get(hobj, last.key) = last.ret

\* the call was made on a strict map at capacity for a key that is not in
\* the map, and its outcome is an insertion
StrictInsertAtCapacity ==
    /\ last.op \in {"compute", "computeIfAbsent", "merge", "setIfAbsent"}
    /\ last.pre.cls = "BoundedHashMap"
    /\ last.pre.strict
    /\ HashMap_size(last.pre) >= last.pre.capacity
    /\ ~HashMap_has(last.pre, last.key)
    /\ last.op = "compute" => last.r # Undefined
    /\ last.op = "merge" => last.arg # Undefined

\* C29: on a strict BoundedHashMap with size >= capacity, compute,
\* computeIfAbsent, merge and setIfAbsent called for a key that is not in the
\* map and whose outcome would insert it throw the capacity error and leave
\* the keys, values and size as they were before the call.
C29_StrictInsertThrows ==
    StrictInsertAtCapacity =>
        /\ last.threw
        /\ hobj = last.pre
        /\ HashMap_size(hobj) = HashMap_size(last.pre)

\* setIfAbsent of a new key with a usable value was rejected
C29_Witness ==
    /\ StrictInsertAtCapacity
    /\ last.op = "setIfAbsent"
    /\ last.arg \in Usable
    /\ HashMap_size(last.pre) = last.pre.capacity
    /\ last.threw

\* compute of a new key with a usable result was rejected
C29_WitnessCompute ==
    /\ StrictInsertAtCapacity
    /\ last.op = "compute"
    /\ last.r \in Usable
    /\ last.threw

\* ==================================== ArrayMap: callbacks that call back in
\* The callback is (..) => { this.delete(k2); return r }: it removes k2 from
\* the same ArrayMap before it returns r.  Each operation runs as written:
\* what it read before the callback it still holds after it.

\* mutant: the result is stored with this.set(key, newValue), which looks the
\* key up again
ArrayMap_computeIfPresent_reentrant_set(a, key, k2, r) ==
    LET index == IdxGet(a.index, key)
    IN  IF index # Undefined
        THEN LET a1 == ArrayMap_delete(a, k2, Undefined).obj
                 after == IF r = Undefined
                          THEN ArrayMap_delete(a1, key, Undefined).obj
                          ELSE ArrayMap_set(a1, key, r).obj
             IN  [Res(after, r) EXCEPT !.calls = << <<key, ArrGet(a.values, index)>> >>]
        ELSE Res(a, Undefined)

\* computeIfPresent: `this._values[index] = newValue` uses the index read
\* before the callback ran
ArrayMap_computeIfPresent_reentrant(a, key, k2, r) ==
    LET index == IdxGet(a.index, key)
    IN  IF index # Undefined
        THEN LET a1 == ArrayMap_delete(a, k2, Undefined).obj
                 after == IF r = Undefined
                          THEN ArrayMap_delete(a1, key, Undefined).obj
                          ELSE [a1 EXCEPT !.values = ArrSet(a1.values, index, r)]
             IN  [Res(after, r) EXCEPT !.calls = << <<key, ArrGet(a.values, index)>> >>]
        ELSE Res(a, Undefined)

\* compute: delete and set look the key up again after the callback
ArrayMap_compute_reentrant(a, key, k2, r) ==
    LET index == IdxGet(a.index, key)
        oldValue == IF index # Undefined THEN ArrGet(a.values, index) ELSE Undefined
        a1 == ArrayMap_delete(a, k2, Undefined).obj
        after == IF r = Undefined
                 THEN ArrayMap_delete(a1, key, Undefined).obj
                 ELSE ArrayMap_set(a1, key, r).obj
    IN  [Res(after, r) EXCEPT !.calls = << <<key, oldValue>> >>]

\* merge: the callback runs only for an indexed key
ArrayMap_merge_reentrant(a, key, value, k2, r) ==
    LET index == IdxGet(a.index, key)
        a1 == IF index # Undefined THEN ArrayMap_delete(a, k2, Undefined).obj ELSE a
        newValue == IF index # Undefined THEN r ELSE value
        after == IF newValue = Undefined \/ newValue = Null
                 THEN ArrayMap_delete(a1, key, Undefined).obj
                 ELSE ArrayMap_set(a1, key, newValue).obj
    IN  [Res(after, newValue)
            EXCEPT !.calls = IF index # Undefined
                             THEN << <<ArrGet(a.values, index), value>> >>
                             ELSE <<>>]

\* the key the callback deletes is recorded as the call's arg2
RComputeIfPresent ==
    /\ last.op = "none"
    /\ IndexInvariant(AM)
    /\ \E k \in Keys, k2 \in Keys, r \in Vals :
        ArrayApply("computeIfPresent", k, Undefined, k2, r, <<>>, "reentrant",
                  ArrayMap_computeIfPresent_reentrant(AM, k, k2, r))

RCompute ==
    /\ last.op = "none"
    /\ IndexInvariant(AM)
    /\ \E k \in Keys, k2 \in Keys, r \in Vals :
        ArrayApply("compute", k, Undefined, k2, r, <<>>, "reentrant",
                  ArrayMap_compute_reentrant(AM, k, k2, r))

RMerge ==
    /\ last.op = "none"
    /\ IndexInvariant(AM)
    /\ \E k \in Keys, v \in Vals, k2 \in Keys, r \in Vals :
        ArrayApply("merge", k, v, k2, r, <<>>, "reentrant",
                  ArrayMap_merge_reentrant(AM, k, v, k2, r))

\* set and delete bring the ArrayMap into every arrangement; calling a
\* desynchronized ArrayMap is undefined: the run ends there
NextReentrant ==
    \/ IndexInvariant(AM) /\ ASet
    \/ IndexInvariant(AM) /\ ADelete
    \/ Return
    \/ RComputeIfPresent
    \/ RCompute
    \/ RMerge

SpecReentrant == InitArray /\ [][NextReentrant]_vars

\* computeIfPresent was called for the key at the last position with a
\* callback that deletes a key of the map and returns a value to store
ReentrantAtTail ==
    /\ cls = "ArrayMap"
    /\ last.op = "computeIfPresent"
    /\ last.flag = "reentrant"
    /\ IndexInvariant(last.pre)
    /\ IdxHas(last.pre.index, last.key)
    /\ last.pre.index[last.key] = Len(last.pre.values) - 1
    /\ IdxHas(last.pre.index, last.arg2)
    /\ last.r # Undefined

ReentrantComputeMergeKeep ==
    (cls = "ArrayMap" /\ last.op \in {"compute", "merge"} /\ last.flag = "reentrant") =>
        IndexInvariant(AM)

\* ====================================================== ArrayMap: iteration
\* entries(), keys() and values() return an iterator that holds a position i
\* and the live _keys / _values arrays; every next() reads their current
\* length and content.  iter holds the position of one iterator, the keys of
\* the entries it has yielded (seen), the keys that were in the map when it
\* was created (start), the keys deleted since (gone) and whether any other
\* mutation happened since (other).  Of the map itself it records the live
\* keys in the order of their first insertion (order) and whether a key was
\* ever removed (removed).

\* mutant: next() stops one position before the end
IterNext_stopsEarly(kind, a, i) ==
    LET len == IF kind = "values" THEN Len(a.values) ELSE Len(a.keys)
    IN  IF i + 1 < len
        THEN [done |-> FALSE, i |-> i + 1,
              value |-> CASE kind = "entries" -> <<ArrGet(a.keys, i), ArrGet(a.values, i)>>
                          [] kind = "keys" -> ArrGet(a.keys, i)
                          [] kind = "values" -> ArrGet(a.values, i)]
        ELSE [done |-> TRUE, i |-> i, value |-> Undefined]

\* next() of an iterator of the given kind at position i
IterNext(kind, a, i) ==
    LET len == IF kind = "values" THEN Len(a.values) ELSE Len(a.keys)
    IN  IF i < len
        THEN [done |-> FALSE, i |-> i + 1,
              value |-> CASE kind = "entries" -> <<ArrGet(a.keys, i), ArrGet(a.values, i)>>
                          [] kind = "keys" -> ArrGet(a.keys, i)
                          [] kind = "values" -> ArrGet(a.values, i)]
        ELSE [done |-> TRUE, i |-> i, value |-> Undefined]

RECURSIVE Drain(_, _, _)
\* [...iterator]: next() until done, with no other call in between
Drain(kind, a, i) ==
    LET n == IterNext(kind, a, i)
    IN  IF n.done THEN <<>> ELSE <<n.value>> \o Drain(kind, a, n.i)

RECURSIVE KeysInOrder(_, _)
\* the keys of an entry sequence in the order of their first occurrence
KeysInOrder(es, acc) ==
    IF es = <<>> THEN acc
    ELSE KeysInOrder(Tail(es),
             IF \E j \in DOMAIN acc : acc[j] = es[1][1] THEN acc ELSE Append(acc, es[1][1]))

\* the sequence without k
Without(seq, k) == SelectSeq(seq, LAMBDA x : x # k)

\* how often x occurs in seq
Count(seq, x) == Cardinality({j \in DOMAIN seq : seq[j] = x})

\* an iterator has been created and is not exhausted
Iterating == iter.kind # "none" /\ ~iter.done

InitIter ==
    /\ \E es \in EntrySeqs :
          LET a == ArrayMap_constructor(es)
          IN  /\ a_index = a.index
              /\ a_keys = a.keys
              /\ a_values = a.values
              /\ iter = [NoIter EXCEPT !.order = KeysInOrder(es, <<>>)]
    /\ last = NoCall
    /\ hobj = HashMap_none
    /\ emap = <<>>
    /\ cls = "ArrayMap"
    /\ heap = <<>>
    /\ refs = NoRefs

\* a call that changes the map to res.obj, with what it adds to the record
IterApply(res, order, removed, gone) ==
    /\ cls = "ArrayMap"
    /\ last.op = "none"
    /\ a_index' = res.obj.index
    /\ a_keys' = res.obj.keys
    /\ a_values' = res.obj.values
    /\ iter' = [iter EXCEPT !.order = order,
                            !.removed = @ \/ removed,
                            !.gone = IF Iterating THEN @ \cup gone ELSE @,
                            !.other = @ \/ (Iterating /\ gone = {})]
    /\ UNCHANGED <<hobj, emap, cls, last, heap, refs>>

ISet == \E k \in Keys, v \in Vals :
    /\ iter.kind # "none" => v \in Usable
    /\ IterApply(ArrayMap_set(AM, k, v),
                 IF ArrayMap_has(AM, k) THEN iter.order ELSE Append(iter.order, k),
                 FALSE, {})

IDelete == \E k \in Keys :
    /\ ArrayMap_has(AM, k)
    /\ IterApply(ArrayMap_delete(AM, k, Undefined), Without(iter.order, k), TRUE, {k})

IClear ==
    /\ iter.kind = "none"
    /\ IterApply(ArrayMap_clear(AM), <<>>, ArrayMap_size(AM) > 0, {})

\* a complete iteration: [...m.entries()], [...m.keys()], [...m.values()]
\* or m.toArray()
IterAll == \E kind \in {"entries", "keys", "values", "toArray"} :
    /\ cls = "ArrayMap"
    /\ last.op = "none"
    /\ iter.kind = "none"
    /\ last' = [Call("iterate", Undefined, Undefined, Undefined, <<>>,
                     [Res(AM, Undefined) EXCEPT
                        !.out = IF kind = "toArray" THEN ArrayMap_toArray(AM)
                                ELSE Drain(kind, AM, 0)], AM)
                  EXCEPT !.flag = kind]
    /\ UNCHANGED <<a_index, a_keys, a_values, hobj, emap, cls, heap, refs, iter>>

NextIterate ==
    \/ ISet
    \/ IDelete
    \/ IClear
    \/ IterAll
    \/ Return

SpecIterate == InitIter /\ [][NextIterate]_vars

\* it = m.entries(), m.keys() or m.values()
IterNew == \E kind \in {"entries", "keys", "values"} :
    /\ cls = "ArrayMap"
    /\ iter.kind = "none"
    /\ iter' = [iter EXCEPT !.kind = kind, !.i = 0, !.done = FALSE, !.seen = <<>>,
                            !.start = DOMAIN a_index, !.gone = {}, !.other = FALSE]
    /\ UNCHANGED <<a_index, a_keys, a_values, hobj, emap, cls, last, heap, refs>>

\* it.next()
IterAdvance ==
    /\ cls = "ArrayMap"
    /\ Iterating
    /\ LET n == IterNext(iter.kind, AM, iter.i)
       IN  iter' = IF n.done THEN [iter EXCEPT !.done = TRUE]
                   ELSE [iter EXCEPT !.i = n.i, !.seen = Append(@, ArrGet(a_keys, iter.i))]
    /\ UNCHANGED <<a_index, a_keys, a_values, hobj, emap, cls, last, heap, refs>>

NextIter ==
    \/ ISet
    \/ IDelete
    \/ IterNew
    \/ IterAdvance

SpecIter == InitIter /\ [][NextIter]_vars

\* C23: a complete iteration of an ArrayMap (entries, keys, values, toArray)
\* with no mutation during it yields every live entry exactly once: in the
\* order in which the keys were first inserted as long as no removal has
\* ever occurred on the map, and in some permutation of the live entries
\* once removals have occurred.
C23_CompleteIteration ==
    (cls = "ArrayMap" /\ last.op = "iterate") =>
        /\ Len(last.out) = ArrayMap_size(AM)
        /\ last.flag \in {"entries", "toArray"} =>
              /\ \A k \in DOMAIN a_index : Count(last.out, <<k, ArrayMap_get(AM, k)>>) = 1
              /\ ~iter.removed =>
                    \A j \in DOMAIN last.out : last.out[j][1] = iter.order[j]
        /\ last.flag = "keys" =>
              /\ \A k \in DOMAIN a_index : Count(last.out, k) = 1
              /\ ~iter.removed => last.out = iter.order
        /\ last.flag = "values" =>
              /\ \A v \in Vals :
                    Count(last.out, v) =
                        Cardinality({k \in DOMAIN a_index : ArrayMap_get(AM, k) = v})
              /\ ~iter.removed =>
                    \A j \in DOMAIN last.out : last.out[j] = ArrayMap_get(AM, iter.order[j])

\* two keys were inserted, none was ever removed, and entries() gave them
\* in that order
C23_Witness ==
    /\ cls = "ArrayMap"
    /\ last.op = "iterate"
    /\ last.flag = "entries"
    /\ ~iter.removed
    /\ Len(last.out) = 2
    /\ Len(iter.order) = 2

\* after a removal the remaining entry is still given
C23_WitnessRemoved ==
    /\ cls = "ArrayMap"
    /\ last.op = "iterate"
    /\ last.flag = "keys"
    /\ iter.removed
    /\ Len(last.out) = 1

\* C30: when delete calls on an ArrayMap are interleaved between the
\* advancements of one of its iterators (entries, keys or values), the
\* iterator still yields exactly once every entry that stays in the map from
\* the iterator's creation until the iterator is exhausted, and never yields
\* the same key twice.
C30_IteratorUnderDelete ==
    (cls = "ArrayMap" /\ iter.kind # "none" /\ iter.done /\ ~iter.other) =>
        /\ \A k \in iter.start \ iter.gone : Count(iter.seen, k) = 1
        /\ \A k \in Keys : Count(iter.seen, k) <= 1

====
